---- MODULE Spec2Model ----
(***************************************************************************)
(* Model of the prompt-queue Scheduler of the extension host               *)
(* (src/main_scripts/debug-handler.js, class Scheduler).                   *)
(*                                                                         *)
(* JavaScript runs the scheduler on one event loop: a handler runs without *)
(* interruption up to its next `await` of an external round trip (a CDP    *)
(* call, a configuration update).  Each such await is a suspension point   *)
(* and is modelled as the boundary between two actions; the suspended      *)
(* continuations are kept in jobs, updates, pendingChecks, pendingStarts.  *)
(* Times are milliseconds, as in the source.  Only differences             *)
(* Date.now() - stamp are ever compared, so the clock is kept in a moving  *)
(* frame: `now` stays put and the passing of time (Tick) moves every       *)
(* stored stamp into the past, down to the age beyond which no comparison  *)
(* of the source can tell two stamps apart.                                *)
(***************************************************************************)
EXTENDS Integers, Sequences, FiniteSets, TLC

\* ---------------------------------------------------------------- bounds
MaxPrompts == 2          \* longest prompts list the configuration holds
MaxCommands == 3         \* commands the operator and the quota poller issue, at most
MaxHistory == 2          \* the silence timer rests once more prompts than this are logged
MaxUpdates == 1          \* config.update calls pending at once, at most
MaxPendingChecks == 1    \* checkSilence calls awaiting getStats, at most
MaxClicks == 1           \* highest click count getStats reports
SilenceTimeoutSec == 5   \* configured auto-accept.schedule.silenceTimeout
TickMs == 6000           \* the clock advances in steps of this length

\* ------------------------------------------------------- program constants
MinTaskMs == 10000       \* minimum dwell time of a queue item
StartDampenerMs == 2000  \* cooldown between two startQueue calls
ActivationGraceMs == 5000
HistoryLimit == 50

PromptTexts == <<"Task A", "Task B", "Task C", "Task D">>
CheckPromptText == "Check"
ValidSources == {"manual", "debug-server", "resume", "test"}
Sources == {"manual", "debug-server"}

VARIABLES
    store,              \* the persisted configuration (vscode settings)
    sched,              \* the Scheduler object: its fields, named as in the source
    jobs,               \* queuePrompt closures, in the order they were chained
    updates,            \* config.update calls not yet settled, oldest first
    pendingChecks,      \* checkSilence calls suspended on getStats
    pendingStarts,      \* startQueue calls suspended on the CDP sync
    commands,           \* commands issued so far (bounds the model, not the program)
    errorShown,         \* the step just taken showed an error message
    lease,              \* the instance lock in globalState and the windows sharing it
    cdp,                \* the CDPHandler object, its sockets and its calls in progress
    client              \* the AntigravityClient object and its getUserStatus call

vars == <<store, sched, jobs, updates, pendingChecks, pendingStarts, commands, errorShown,
          lease, cdp, client>>

\* ------------------------------------------------------------------ clock
\* Date.now(), in the moving frame
now == 100000

\* the least number of whole ticks whose length exceeds (reaches) a threshold
TicksAbove(ms) == ((ms \div TickMs) + 1) * TickMs
TicksUpTo(ms) == ((ms + TickMs - 1) \div TickMs) * TickMs

\* a stamp one tick later; 0 is the source's "never set"; a stamp older than
\* cap stays where it is
Recede(stamp, cap) ==
    IF stamp = 0 THEN 0
    ELSE IF now - stamp >= cap THEN stamp
    ELSE stamp - TickMs

\* ---------------------------------------------------------------- helpers
Remove(s, i) == [k \in 1..(Len(s) - 1) |-> IF k < i THEN s[k] ELSE s[k + 1]]

PromptList(n) == [k \in 1..n |-> PromptTexts[k]]

\* loadConfig: the snapshot of the schedule section
LoadConfig(st) ==
    [mode |-> st.mode,
     prompts |-> st.prompts,
     queueMode |-> st.queueMode,
     silenceTimeout |-> st.silenceTimeout * 1000,
     checkPromptEnabled |-> st.checkPromptEnabled,
     checkPromptText |-> st.checkPromptText]

RECURSIVE BuildFrom(_, _, _)
BuildFrom(cfg, i, queue) ==
    IF i >= Len(cfg.prompts) THEN queue
    ELSE LET withTask == Append(queue, [type |-> "task", text |-> cfg.prompts[i + 1], index |-> i])
             withCheck == IF cfg.checkPromptEnabled
                          THEN Append(withTask, [type |-> "check", text |-> cfg.checkPromptText, afterIndex |-> i])
                          ELSE withTask
         IN BuildFrom(cfg, i + 1, withCheck)

\* a buildRuntimeQueue that leaves the check prompts out
BuildRuntimeQueueTasksOnly(cfg) ==
    IF Len(cfg.prompts) = 0 THEN <<>>
    ELSE BuildFrom([cfg EXCEPT !.checkPromptEnabled = FALSE], 0, <<>>)

\* buildRuntimeQueue
BuildRuntimeQueue(cfg) ==
    IF Len(cfg.prompts) = 0 THEN <<>> ELSE BuildFrom(cfg, 0, <<>>)

\* queuePrompt: the closure chained on this.promptQueue; runId is captured at the call
QueuePrompt(s, js, text, src) ==
    Append(js, [text |-> text, runId |-> s.queueRunId, chain |-> s.promptQueue,
                pc |-> "queued", attempts |-> 0, src |-> src])

\* executeCurrentQueueItem on the scheduler s: the jobs after the call
ExecuteCurrentQueueItem(s, js) ==
    IF ~s.isRunningQueue \/ s.isStopped THEN js
    ELSE IF s.queueIndex >= Len(s.runtimeQueue) THEN js
    ELSE QueuePrompt(s, js, s.runtimeQueue[s.queueIndex + 1].text, "item")

\* addToHistory without the limit
AddToHistoryUnbounded(hist, text) == Append(hist, text)

\* addToHistory
AddToHistory(hist, text) ==
    LET pushed == Append(hist, text)
    IN IF Len(pushed) > HistoryLimit THEN Tail(pushed) ELSE pushed

\* a stopQueue that leaves the run generation as it is
StopQueueSameRun(s) ==
    IF ~s.isRunningQueue /\ Len(s.runtimeQueue) = 0 THEN s
    ELSE [s EXCEPT !.isRunningQueue = FALSE,
                   !.isStopped = TRUE,
                   !.runtimeQueue = <<>>,
                   !.queueIndex = 0,
                   !.isPaused = FALSE,
                   !.lastClickCount = 0,
                   !.lastClickTime = 0,
                   !.lastActivityTime = 0,
                   !.taskStartTime = 0,
                   !.hasSentCurrentItem = FALSE,
                   !.promptQueue = s.promptQueue + 1]

\* a stopQueue without the test for an idle scheduler
StopQueueUnguarded(s) ==
    [s EXCEPT !.isRunningQueue = FALSE,
              !.isStopped = TRUE,
              !.queueRunId = s.queueRunId + 1,
              !.runtimeQueue = <<>>,
              !.queueIndex = 0,
              !.isPaused = FALSE,
              !.lastClickCount = 0,
              !.lastClickTime = 0,
              !.lastActivityTime = 0,
              !.taskStartTime = 0,
              !.hasSentCurrentItem = FALSE,
              !.promptQueue = s.promptQueue + 1]

\* the value stopQueue returns
StopQueueResult(s) == ~(~s.isRunningQueue /\ Len(s.runtimeQueue) = 0)

\* stopQueue
StopQueue(s) ==
    IF ~s.isRunningQueue /\ Len(s.runtimeQueue) = 0 THEN s
    ELSE [s EXCEPT !.isRunningQueue = FALSE,
                   !.isStopped = TRUE,
                   !.queueRunId = s.queueRunId + 1,
                   !.runtimeQueue = <<>>,
                   !.queueIndex = 0,
                   !.isPaused = FALSE,
                   !.lastClickCount = 0,
                   !.lastClickTime = 0,
                   !.lastActivityTime = 0,
                   !.taskStartTime = 0,
                   !.hasSentCurrentItem = FALSE,
                   !.promptQueue = s.promptQueue + 1]

\* the environment may issue one more command (bounds the model, not the program)
Budget == commands < MaxCommands

\* ------------------------------------------------------------------- Init
\* -------------------------------------------------------- instance lock: state
MaxInstances == 2
LeaseStepMs == 1000
PollMs == 5000
StaleMs == 15000

\* the windows running the extension
Instances == 1..MaxInstances

\* globalContext.extension.id: windows of one extension report the same identifier
ExtensionIds == {"publisher.extension", "publisher.fork"}

\* globalState.get(lockKey) of a lock never written
NoOwner == ""

\* the lock record and the windows before any of them polls; isLockedOut starts
\* false in every window
NewLease(ids) ==
    [lockOwner |-> NoOwner,
     lastPing |-> 0,
     inst |-> [i \in Instances |->
                 [myId |-> ids[i], polling |-> FALSE, isLockedOut |-> FALSE,
                  sincePoll |-> 0, cdpStarted |-> FALSE]]]

\* ------------------------------------------------------ the CDP handler's state
MaxTargets == 2          \* debug targets the discovery endpoint ever lists
MaxCalls == 2            \* calls of the handler in progress at once, at most
MaxSockets == 2          \* WebSockets the handler opens, at most
MaxRequests == 3         \* Runtime.evaluate requests the handler issues, at most
MaxScore == 1            \* highest score a probe reports

Targets == 1..MaxTargets
CallIds == 1..MaxCalls

\* titles of the pages and the workspace names a configuration carries; "" is
\* the missing name
PageTitles == {"Proj - Antigravity", "other - Antigravity"}
NoWorkspace == ""
WorkspaceNames == {NoWorkspace, "proj"}

\* a call of the handler that is not in progress
NoCall == [pc |-> "idle", pages |-> <<>>, i |-> 0, conn |-> 0, req |-> 0,
           results |-> <<>>, target |-> 0, ret |-> -1, sentTo |-> {}]

\* the handler as its constructor leaves it: no connection, msgId 1.  order is
\* the key order of the connections Map and link[t] the socket of the entry of
\* target t (0: no entry); the entry object {ws, injected, pageTitle} is kept
\* with its socket, which it is created with
NewHandler ==
    [sockets |-> <<>>,
     order |-> <<>>,
     link |-> [t \in Targets |-> 0],
     msgId |-> 1,
     requests |-> <<>>,
     calls |-> [c \in CallIds |-> NoCall],
     workspaceName |-> NoWorkspace,
     titles |-> [t \in Targets |-> ""],
     clicksThisSession |-> 0,
     clickTime |-> 0]

\* ------------------------------------------------------ the client: its state
MaxPolls == 3            \* getUserStatus calls the poller makes, at most
MaxRounds == 4           \* reconnect-and-retry rounds of one call the model follows

\* this.maxReconnectAttempts
MaxReconnectAttempts == 3

\* the client as its constructor leaves it, no getUserStatus call made
NewClient ==
    [connected |-> FALSE,
     port |-> 0,
     reconnectAttempts |-> 0,
     pc |-> "idle",
     error |-> "",
     rounds |-> 0,
     polls |-> 0,
     result |-> "none"]

\* the scheduler as the constructor and the start() of the activation leave it:
\* the configuration loaded, the silence timer armed
NewScheduler(st) ==
    [config |-> LoadConfig(st),
     runtimeQueue |-> <<>>,
     queueIndex |-> 0,
     isRunningQueue |-> FALSE,
     isStopped |-> FALSE,
     queueRunId |-> 0,
     promptQueue |-> 0,
     taskStartTime |-> 0,
     hasSentCurrentItem |-> FALSE,
     lastClickCount |-> 0,
     lastClickTime |-> 0,
     lastActivityTime |-> 0,
     isPaused |-> FALSE,
     isQuotaExhausted |-> FALSE,
     promptHistory |-> <<>>,
     activationTime |-> now,
     lastStartQueueTime |-> 0,
     silenceTimer |-> TRUE]

Init ==
    /\ \E n \in 0..MaxPrompts, m \in {"queue", "interval"}, qm \in {"consume", "loop"},
          cp \in BOOLEAN :
          store = [mode |-> m, prompts |-> PromptList(n), queueMode |-> qm,
                   silenceTimeout |-> SilenceTimeoutSec, checkPromptEnabled |-> cp,
                   checkPromptText |-> CheckPromptText]
    /\ sched = NewScheduler(store)
    /\ lease = NewLease([i \in Instances |-> "publisher.extension"])
    /\ jobs = <<>>
    /\ updates = <<>>
    /\ pendingChecks = 0
    /\ pendingStarts = 0
    /\ commands = 0
    /\ errorShown = FALSE
    /\ client = NewClient
    /\ cdp = NewHandler

\* no error message is shown by the step
NoError == errorShown' = FALSE

\* ------------------------------------------------------------ startQueue
\* an activation guard that stops every source
GracedAnySource(s, source) ==
    s.activationTime # 0 /\ now - s.activationTime < ActivationGraceMs

\* the activation guard of startQueue
Graced(s, source) ==
    /\ s.activationTime # 0
    /\ now - s.activationTime < ActivationGraceMs
    /\ source # "manual" /\ source # "test"

\* the dampener of startQueue: a call less than 2 s after the last stamped one
Dampened(s) == s.lastStartQueueTime # 0 /\ now - s.lastStartQueueTime < StartDampenerMs

\* a startQueue call with this source gets past every guard to the CDP sync
StartQueuePasses(s, st, source) ==
    /\ source \in ValidSources
    /\ ~Dampened(s)
    /\ ~Graced(s, source)
    /\ ~(LoadConfig(st).mode = "queue" /\ s.isRunningQueue)
    /\ LoadConfig(st).mode = "queue"

\* startQueue up to its await of ensureCdpReadyNow('startQueue', true)
StartQueueBegin(source) ==
    /\ source \in ValidSources
    /\ Budget
    /\ ~Dampened(sched)
    /\ LET stamped == [sched EXCEPT !.lastStartQueueTime = now]
           graced == Graced(stamped, source)
           loaded == [stamped EXCEPT !.config = LoadConfig(store)]
       IN IF graced
          THEN sched' = stamped /\ UNCHANGED pendingStarts
          ELSE IF loaded.config.mode = "queue" /\ loaded.isRunningQueue
          THEN sched' = loaded /\ UNCHANGED pendingStarts
          ELSE IF loaded.config.mode # "queue"
          THEN sched' = loaded /\ UNCHANGED pendingStarts
          ELSE sched' = loaded /\ pendingStarts' = pendingStarts + 1
    /\ commands' = commands + 1
    /\ NoError
    /\ UNCHANGED <<lease, cdp, client, store, jobs, updates, pendingChecks>>

\* a startQueue that does not look at the length of the queue it built
StartQueueResetUnchecked(s) ==
    [s EXCEPT !.runtimeQueue = BuildRuntimeQueue(s.config),
              !.queueIndex = 0,
              !.isRunningQueue = TRUE,
              !.isStopped = FALSE,
              !.lastClickCount = 0,
              !.lastClickTime = now,
              !.lastActivityTime = now,
              !.taskStartTime = now,
              !.hasSentCurrentItem = FALSE]

\* startQueue after the CDP sync settled, up to the dispatch of item 0
StartQueueReset(s) ==
    LET built == [s EXCEPT !.runtimeQueue = BuildRuntimeQueue(s.config),
                           !.queueIndex = 0,
                           !.isRunningQueue = TRUE,
                           !.isStopped = FALSE,
                           !.lastClickCount = 0,
                           !.lastClickTime = now,
                           !.lastActivityTime = now,
                           !.taskStartTime = now,
                           !.hasSentCurrentItem = FALSE]
    IN IF Len(built.runtimeQueue) = 0
       THEN [built EXCEPT !.isRunningQueue = FALSE, !.hasSentCurrentItem = FALSE]
       ELSE built

StartQueueResume ==
    /\ pendingStarts > 0
    /\ pendingStarts' = pendingStarts - 1
    /\ sched' = StartQueueReset(sched)
    /\ jobs' = IF Len(sched'.runtimeQueue) = 0 THEN jobs
               ELSE ExecuteCurrentQueueItem(sched', jobs)
    /\ NoError
    /\ UNCHANGED <<lease, cdp, client, store, updates, pendingChecks, commands>>

\* ---------------------------------------------------------- advanceQueue
\* an advanceQueue whose end-of-queue test is off by one
AdvanceStepOffByOne(s, st) ==
    LET inc == [s EXCEPT !.queueIndex = s.queueIndex + 1,
                         !.lastClickCount = 0,
                         !.lastClickTime = now,
                         !.lastActivityTime = now,
                         !.taskStartTime = now,
                         !.hasSentCurrentItem = FALSE]
    IN IF inc.queueIndex > Len(inc.runtimeQueue)
       THEN IF inc.config.queueMode = "loop" /\ Len(inc.runtimeQueue) > 0
            THEN [inc EXCEPT !.queueIndex = 0,
                             !.config = LoadConfig(st),
                             !.runtimeQueue = BuildRuntimeQueue(LoadConfig(st))]
            ELSE [inc EXCEPT !.isRunningQueue = FALSE]
       ELSE inc

\* advanceQueue after consumeCurrentPrompt, up to the dispatch of the next item;
\* st is the persisted configuration at that moment
AdvanceStep(s, st) ==
    LET inc == [s EXCEPT !.queueIndex = s.queueIndex + 1,
                         !.lastClickCount = 0,
                         !.lastClickTime = now,
                         !.lastActivityTime = now,
                         !.taskStartTime = now,
                         !.hasSentCurrentItem = FALSE]
    IN IF inc.queueIndex >= Len(inc.runtimeQueue)
       THEN IF inc.config.queueMode = "loop" /\ Len(inc.runtimeQueue) > 0
            THEN [inc EXCEPT !.queueIndex = 0,
                             !.config = LoadConfig(st),
                             !.runtimeQueue = BuildRuntimeQueue(LoadConfig(st))]
            ELSE [inc EXCEPT !.isRunningQueue = FALSE]
       ELSE inc

\* consumeCurrentPrompt: the list it writes back
ConsumeRemaining(prompts) == Tail(prompts)

\* advanceQueue suspends on config.update when it has a prompt to consume
AdvanceSuspends(s) ==
    s.config.queueMode = "consume" /\ Len(store.prompts) > 0

\* ---------------------------------------------------------- checkSilence
\* the guards of checkSilence before it asks for the stats
CheckSilenceGuard(s) ==
    /\ s.isRunningQueue
    /\ s.config.mode = "queue"
    /\ ~s.isPaused
    /\ ~s.isQuotaExhausted

\* the run has logged more prompts than the model follows
TimerRests == Len(sched.promptHistory) > MaxHistory

\* the silence timer fires
CheckSilenceBegin ==
    /\ sched.silenceTimer
    /\ pendingChecks < MaxPendingChecks
    /\ Len(updates) < MaxUpdates
    /\ ~TimerRests
    /\ CheckSilenceGuard(sched)
    /\ pendingChecks' = pendingChecks + 1
    /\ NoError
    /\ UNCHANGED <<lease, cdp, client, store, sched, jobs, updates, pendingStarts, commands>>

\* the click bookkeeping of checkSilence once getStats replied currentClicks
ObserveClicks(s, currentClicks) ==
    IF currentClicks > s.lastClickCount
    THEN [s EXCEPT !.lastClickTime = now, !.lastActivityTime = now,
                   !.lastClickCount = currentClicks]
    ELSE s

SilenceDuration(s) ==
    now - (IF s.lastActivityTime # 0 THEN s.lastActivityTime
           ELSE IF s.lastClickTime # 0 THEN s.lastClickTime
           ELSE now)

TaskDuration(s) == now - s.taskStartTime

\* a silence test that does not wait for the send of the current item
SilenceReachedUnsent(s) ==
    /\ TaskDuration(s) > MinTaskMs
    /\ SilenceDuration(s) > s.config.silenceTimeout

\* the condition under which checkSilence calls advanceQueue
SilenceReached(s) ==
    /\ TaskDuration(s) > MinTaskMs
    /\ s.hasSentCurrentItem
    /\ SilenceDuration(s) > s.config.silenceTimeout

\* getStats replied and the queue stays where it is: checkSilence does not call
\* advanceQueue, or advanceQueue returns at once because no queue is running
CheckSilenceQuiet(currentClicks) ==
    /\ pendingChecks > 0
    /\ ~SilenceReached(ObserveClicks(sched, currentClicks)) \/ ~sched.isRunningQueue
    /\ pendingChecks' = pendingChecks - 1
    /\ sched' = ObserveClicks(sched, currentClicks)
    /\ NoError
    /\ UNCHANGED <<lease, cdp, client, store, jobs, updates, pendingStarts, commands>>

\* getStats replied, checkSilence calls advanceQueue, which consumes a prompt and
\* suspends on config.update
CheckSilenceConsume(currentClicks) ==
    /\ pendingChecks > 0
    /\ SilenceReached(ObserveClicks(sched, currentClicks))
    /\ sched.isRunningQueue
    /\ AdvanceSuspends(sched)
    /\ pendingChecks' = pendingChecks - 1
    /\ sched' = ObserveClicks(sched, currentClicks)
    /\ updates' = Append(updates, [kind |-> "advance",
                                   prompts |-> ConsumeRemaining(store.prompts)])
    /\ NoError
    /\ UNCHANGED <<lease, cdp, client, store, jobs, pendingStarts, commands>>

\* getStats replied, checkSilence calls advanceQueue, which has nothing to consume
\* and runs to the dispatch
CheckSilenceAdvance(currentClicks) ==
    /\ pendingChecks > 0
    /\ SilenceReached(ObserveClicks(sched, currentClicks))
    /\ sched.isRunningQueue
    /\ ~AdvanceSuspends(sched)
    /\ pendingChecks' = pendingChecks - 1
    /\ sched' = AdvanceStep(ObserveClicks(sched, currentClicks), store)
    /\ jobs' = ExecuteCurrentQueueItem(sched', jobs)
    /\ NoError
    /\ UNCHANGED <<lease, cdp, client, store, updates, pendingStarts, commands>>

\* the oldest config.update of an advanceQueue settles and advanceQueue goes on
AdvanceResume ==
    /\ updates # <<>>
    /\ Head(updates).kind = "advance"
    /\ store' = [store EXCEPT !.prompts = Head(updates).prompts]
    /\ sched' = AdvanceStep(sched, store')
    /\ jobs' = ExecuteCurrentQueueItem(sched', jobs)
    /\ updates' = Tail(updates)
    /\ NoError
    /\ UNCHANGED <<lease, cdp, client, pendingChecks, pendingStarts, commands>>

\* ----------------------------------------------------------- queuePrompt
\* the scheduler is constructed with options.ensureCdpReady (syncSessions)
EnsureCdpReady == TRUE

\* counts cdpHandler.sendPrompt can report
SentCounts == {0, 1}

\* closures that do not wait for the closures chained before them
ChainHeadUnchained(j) == TRUE

\* a closure runs once every closure chained before it on its chain has settled
ChainHead(j) == \A k \in 1..(j - 1) : jobs[k].chain # jobs[j].chain

\* a staleness test that looks at the stop flag only
CancelledByFlag(s, job) == s.isStopped

\* the test `this.isStopped || runId !== this.queueRunId`
Cancelled(s, job) == s.isStopped \/ job.runId # s.queueRunId

\* the closure starts: cancelled, or it returns at once on an empty text, or it
\* awaits ensureCdpReadyNow('queuePrompt')
QueuePromptStart(j) ==
    /\ jobs[j].pc = "queued"
    /\ ChainHead(j)
    /\ jobs' = IF Cancelled(sched, jobs[j]) THEN Remove(jobs, j)
               ELSE IF jobs[j].text = "" THEN Remove(jobs, j)
               ELSE [jobs EXCEPT ![j].pc = "sync"]
    /\ NoError
    /\ UNCHANGED <<lease, cdp, client, store, sched, updates, pendingChecks, pendingStarts, commands>>

\* the sync settled: cancelled, or cdpHandler.sendPrompt is called
QueuePromptSynced(j) ==
    /\ jobs[j].pc = "sync"
    /\ jobs' = IF Cancelled(sched, jobs[j]) THEN Remove(jobs, j)
               ELSE [jobs EXCEPT ![j].pc = "send", ![j].attempts = 1]
    /\ NoError
    /\ UNCHANGED <<lease, cdp, client, store, sched, updates, pendingChecks, pendingStarts, commands>>

\* a delivery that is logged but does not mark the current item as sent
DeliveredUnmarked(s, text) ==
    [s EXCEPT !.promptHistory = AddToHistory(s.promptHistory, text)]

\* a delivered prompt is logged and marks the current item as sent
Delivered(s, text) ==
    LET logged == [s EXCEPT !.promptHistory = AddToHistory(s.promptHistory, text)]
    IN IF logged.isRunningQueue /\ logged.config.mode = "queue"
       THEN [logged EXCEPT !.hasSentCurrentItem = TRUE, !.lastActivityTime = now]
       ELSE logged

\* the first cdpHandler.sendPrompt replied with a count
QueuePromptReply(j, sentCount) ==
    /\ jobs[j].pc = "send"
    /\ IF Cancelled(sched, jobs[j])
       THEN jobs' = Remove(jobs, j) /\ UNCHANGED sched /\ NoError
       ELSE IF sentCount = 0 /\ EnsureCdpReady
       THEN jobs' = [jobs EXCEPT ![j].pc = "resync"] /\ UNCHANGED sched /\ NoError
       ELSE IF sentCount = 0
       THEN jobs' = Remove(jobs, j) /\ sched' = StopQueue(sched) /\ errorShown' = TRUE
       ELSE jobs' = Remove(jobs, j) /\ sched' = Delivered(sched, jobs[j].text) /\ NoError
    /\ UNCHANGED <<lease, cdp, client, store, updates, pendingChecks, pendingStarts, commands>>

\* the forced resync settled: cancelled, or cdpHandler.sendPrompt is called again
QueuePromptResynced(j) ==
    /\ jobs[j].pc = "resync"
    /\ jobs' = IF Cancelled(sched, jobs[j]) THEN Remove(jobs, j)
               ELSE [jobs EXCEPT ![j].pc = "resend", ![j].attempts = 2]
    /\ NoError
    /\ UNCHANGED <<lease, cdp, client, store, sched, updates, pendingChecks, pendingStarts, commands>>

\* the retry replied: delivered, or the error is shown and the queue force-stopped
QueuePromptRetryReply(j, sentCount) ==
    /\ jobs[j].pc = "resend"
    /\ jobs' = Remove(jobs, j)
    /\ IF Cancelled(sched, jobs[j])
       THEN UNCHANGED sched /\ NoError
       ELSE IF sentCount = 0
       THEN sched' = StopQueue(sched) /\ errorShown' = TRUE
       ELSE sched' = Delivered(sched, jobs[j].text) /\ NoError
    /\ UNCHANGED <<lease, cdp, client, store, updates, pendingChecks, pendingStarts, commands>>

\* ------------------------------------------------------------ quota gate
\* resume() takes the queue branch; queueResumeEnabled is the setting
\* auto-accept.antigravityQuota.resume.enabled as read by this call
ResumesQueue(s, queueResumeEnabled) ==
    s.isRunningQueue /\ s.config.mode = "queue" /\ queueResumeEnabled

\* resume(), called on the falling edge of the quota flag: the scheduler fields
Resume(s, queueResumeEnabled) ==
    LET cleared == [s EXCEPT !.isQuotaExhausted = FALSE]
    IN IF ResumesQueue(cleared, queueResumeEnabled)
       THEN [cleared EXCEPT !.lastClickTime = now,
                            !.lastActivityTime = now,
                            !.taskStartTime = now,
                            !.lastClickCount = 0,
                            !.hasSentCurrentItem = FALSE]
       ELSE cleared

\* a resume() that only knows the generic "Continue" prompt
ResumeJobsContinue(s, js, queueResumeEnabled, autoContinueEnabled) ==
    IF autoContinueEnabled
    THEN QueuePrompt(Resume(s, queueResumeEnabled), js, "Continue", "continue")
    ELSE js

\* resume(): the prompt it enqueues; autoContinueEnabled is the setting
\* auto-accept.autoContinue.enabled as read by this call
ResumeJobs(s, js, queueResumeEnabled, autoContinueEnabled) ==
    IF ResumesQueue(s, queueResumeEnabled)
    THEN ExecuteCurrentQueueItem(Resume(s, queueResumeEnabled), js)
    ELSE IF autoContinueEnabled
    THEN QueuePrompt(Resume(s, queueResumeEnabled), js, "Continue", "continue")
    ELSE js

\* a setQuotaExhausted that resumes on every call reporting quota, edge or not
SetQuotaExhaustedLevel(exhausted, queueResumeEnabled, autoContinueEnabled) ==
    /\ Budget
    /\ LET flagged == [sched EXCEPT !.isQuotaExhausted = exhausted]
       IN IF ~exhausted
          THEN /\ sched' = Resume(flagged, queueResumeEnabled)
               /\ jobs' = ResumeJobs(flagged, jobs, queueResumeEnabled, autoContinueEnabled)
          ELSE sched' = flagged /\ UNCHANGED jobs
    /\ commands' = commands + 1
    /\ NoError
    /\ UNCHANGED <<lease, cdp, client, store, updates, pendingChecks, pendingStarts>>

\* setQuotaExhausted
SetQuotaExhausted(exhausted, queueResumeEnabled, autoContinueEnabled) ==
    /\ Budget
    /\ LET wasExhausted == sched.isQuotaExhausted
           flagged == [sched EXCEPT !.isQuotaExhausted = exhausted]
       IN IF wasExhausted /\ ~exhausted
          THEN /\ sched' = Resume(flagged, queueResumeEnabled)
               /\ jobs' = ResumeJobs(flagged, jobs, queueResumeEnabled, autoContinueEnabled)
          ELSE sched' = flagged /\ UNCHANGED jobs
    /\ commands' = commands + 1
    /\ NoError
    /\ UNCHANGED <<lease, cdp, client, store, updates, pendingChecks, pendingStarts>>

\* ---------------------------------------------------------- queue control
PauseQueue ==
    /\ Budget
    /\ sched.isRunningQueue /\ ~sched.isPaused
    /\ sched' = [sched EXCEPT !.isPaused = TRUE]
    /\ commands' = commands + 1
    /\ NoError
    /\ UNCHANGED <<lease, cdp, client, store, jobs, updates, pendingChecks, pendingStarts>>

\* resumeQueue clears the pause and calls checkSilence at once
ResumeQueue ==
    /\ Budget
    /\ sched.isRunningQueue /\ sched.isPaused
    /\ pendingChecks < MaxPendingChecks
    /\ sched' = [sched EXCEPT !.isPaused = FALSE]
    /\ pendingChecks' = IF CheckSilenceGuard(sched') THEN pendingChecks + 1 ELSE pendingChecks
    /\ commands' = commands + 1
    /\ NoError
    /\ UNCHANGED <<lease, cdp, client, store, jobs, updates, pendingStarts>>

\* skipPrompt up to the dispatch of the next item
SkipStep(s) ==
    LET inc == [s EXCEPT !.queueIndex = s.queueIndex + 1,
                         !.isPaused = FALSE,
                         !.lastClickCount = 0,
                         !.lastClickTime = now,
                         !.lastActivityTime = now,
                         !.taskStartTime = now,
                         !.hasSentCurrentItem = FALSE]
    IN IF inc.queueIndex >= Len(inc.runtimeQueue)
       THEN [inc EXCEPT !.isRunningQueue = FALSE]
       ELSE inc

SkipPrompt ==
    /\ Budget
    /\ sched.isRunningQueue
    /\ sched' = SkipStep(sched)
    /\ jobs' = ExecuteCurrentQueueItem(sched', jobs)
    /\ commands' = commands + 1
    /\ NoError
    /\ UNCHANGED <<lease, cdp, client, store, updates, pendingChecks, pendingStarts>>

\* resetQueue up to its await of config.update('prompts', [])
ResetStep(s) ==
    [s EXCEPT !.isRunningQueue = FALSE,
              !.isStopped = FALSE,
              !.queueRunId = s.queueRunId + 1,
              !.runtimeQueue = <<>>,
              !.queueIndex = 0,
              !.isPaused = FALSE,
              !.lastClickCount = 0,
              !.lastClickTime = 0,
              !.lastActivityTime = 0,
              !.taskStartTime = 0,
              !.hasSentCurrentItem = FALSE,
              !.promptQueue = s.promptQueue + 1]

ResetQueueBegin ==
    /\ Budget
    /\ sched' = ResetStep(sched)
    /\ updates' = Append(updates, [kind |-> "reset", prompts |-> <<>>])
    /\ commands' = commands + 1
    /\ NoError
    /\ UNCHANGED <<lease, cdp, client, store, jobs, pendingChecks, pendingStarts>>

\* the config.update of resetQueue settles: the persisted prompts list is empty
ResetQueueResume ==
    /\ updates # <<>>
    /\ Head(updates).kind = "reset"
    /\ store' = [store EXCEPT !.prompts = Head(updates).prompts]
    /\ updates' = Tail(updates)
    /\ NoError
    /\ UNCHANGED <<lease, cdp, client, sched, jobs, pendingChecks, pendingStarts, commands>>

\* a prompt sent on request, outside the queue: scheduler.sendPrompt(text)
ManualPromptText == "Manual"

SendPromptCmd ==
    /\ Budget
    /\ jobs' = QueuePrompt(sched, jobs, ManualPromptText, "manual")
    /\ commands' = commands + 1
    /\ NoError
    /\ UNCHANGED <<lease, cdp, client, store, sched, updates, pendingChecks, pendingStarts>>

\* the operator stops the queue
StopQueueCmd ==
    /\ Budget
    /\ sched' = StopQueue(sched)
    /\ sched' # sched
    /\ commands' = commands + 1
    /\ NoError
    /\ UNCHANGED <<lease, cdp, client, store, jobs, updates, pendingChecks, pendingStarts>>

\* ------------------------------------------------------------ environment
\* one tick of time passes
Elapse(s) ==
    [s EXCEPT !.taskStartTime = Recede(@, TicksAbove(MinTaskMs)),
              !.lastActivityTime = Recede(@, TicksAbove(s.config.silenceTimeout)),
              !.lastClickTime = Recede(@, TicksAbove(s.config.silenceTimeout)),
              !.activationTime = Recede(@, TicksUpTo(ActivationGraceMs)),
              !.lastStartQueueTime = Recede(@, TicksUpTo(StartDampenerMs))]

Tick ==
    /\ sched' = Elapse(sched)
    /\ NoError
    /\ UNCHANGED <<lease, cdp, client, store, jobs, updates, pendingChecks, pendingStarts, commands>>

Next ==
    \/ \E source \in Sources : StartQueueBegin(source)
    \/ StartQueueResume
    \/ CheckSilenceBegin
    \/ \E c \in 0..MaxClicks : CheckSilenceQuiet(c)
    \/ \E c \in 0..MaxClicks : CheckSilenceConsume(c)
    \/ \E c \in 0..MaxClicks : CheckSilenceAdvance(c)
    \/ AdvanceResume
    \/ \E j \in 1..Len(jobs) : QueuePromptStart(j)
    \/ \E j \in 1..Len(jobs) : QueuePromptSynced(j)
    \/ \E j \in 1..Len(jobs), n \in SentCounts : QueuePromptReply(j, n)
    \/ \E j \in 1..Len(jobs) : QueuePromptResynced(j)
    \/ \E j \in 1..Len(jobs), n \in SentCounts : QueuePromptRetryReply(j, n)
    \/ \E e, qr, ac \in BOOLEAN : SetQuotaExhausted(e, qr, ac)
    \/ PauseQueue
    \/ ResumeQueue
    \/ SkipPrompt
    \/ StopQueueCmd
    \/ SendPromptCmd
    \/ ResetQueueBegin
    \/ ResetQueueResume
    \/ Tick

Spec == Init /\ [][Next]_vars

\* --------------------------------------------------- the scheduler under fairness
\* a text the debug command updateSchedule can store as checkPrompt.text
EmptyText == ""

\* one prompt followed by its check prompt, whose text may have been emptied
FairInit ==
    /\ \E qm \in {"consume", "loop"}, cpt \in {CheckPromptText, EmptyText} :
          store = [mode |-> "queue", prompts |-> PromptList(1), queueMode |-> qm,
                   silenceTimeout |-> SilenceTimeoutSec, checkPromptEnabled |-> TRUE,
                   checkPromptText |-> cpt]
    /\ sched = NewScheduler(store)
    /\ lease = NewLease([i \in Instances |-> "publisher.extension"])
    /\ jobs = <<>>
    /\ updates = <<>>
    /\ pendingChecks = 0
    /\ pendingStarts = 0
    /\ commands = 0
    /\ errorShown = FALSE
    /\ client = NewClient
    /\ cdp = NewHandler

\* a step of a queuePrompt closure: the promise chain and the CDP calls settle
ClosureStep ==
    \/ \E j \in 1..Len(jobs) : QueuePromptStart(j)
    \/ \E j \in 1..Len(jobs) : QueuePromptSynced(j)
    \/ \E j \in 1..Len(jobs), n \in SentCounts : QueuePromptReply(j, n)
    \/ \E j \in 1..Len(jobs) : QueuePromptResynced(j)
    \/ \E j \in 1..Len(jobs), n \in SentCounts : QueuePromptRetryReply(j, n)

\* a pending await of startQueue, advanceQueue, resetQueue or checkSilence settles
AwaitSettles ==
    \/ StartQueueResume
    \/ AdvanceResume
    \/ ResetQueueResume
    \/ \E c \in 0..MaxClicks : CheckSilenceQuiet(c)
    \/ \E c \in 0..MaxClicks : CheckSilenceConsume(c)
    \/ \E c \in 0..MaxClicks : CheckSilenceAdvance(c)

\* the event loop runs every continuation that is ready, time passes and the
\* silence timer keeps firing; the operator is under no obligation
FairSpec ==
    /\ FairInit
    /\ [][Next]_vars
    /\ WF_vars(ClosureStep)
    /\ WF_vars(AwaitSettles)
    /\ WF_vars(CheckSilenceBegin)
    /\ WF_vars(Tick)

\* ------------------------------------------------------ instance lock: actions
\* the window whose scheduler is modelled
Me == 1

\* the scheduler of the window, untouched by the lock protocol
schedVars == <<store, sched, jobs, updates, pendingChecks, pendingStarts, commands,
               errorShown, cdp, client>>

\* the heartbeat stamp one step later, in the moving frame; 0 is "never written"
PingCap == StaleMs + 2 * PollMs
LeaseRecede(stamp) ==
    IF stamp = 0 THEN 0
    ELSE IF now - stamp >= PingCap THEN stamp
    ELSE stamp - LeaseStepMs

\* a test that never sees another owner
LockedByOtherIgnored(l, myId) == FALSE

\* `activeInstance && activeInstance !== myId`
LockedByOther(l, myId) == l.lockOwner # NoOwner /\ l.lockOwner # myId

\* a test for which a heartbeat, once written, never goes stale
FreshForever(l) == l.lastPing # 0

\* `lastPing && (Date.now() - lastPing) < 15000`
Fresh(l) == l.lastPing # 0 /\ now - l.lastPing < StaleMs

\* syncSessions: whether it calls cdpHandler.start
SyncSessions(lockedOut) == EnsureCdpReady /\ ~lockedOut

\* startPolling: the initial syncSessions, then the interval timer is armed
StartPolling(i) ==
    /\ ~lease.inst[i].polling
    /\ lease' = [lease EXCEPT !.inst[i].polling = TRUE,
                              !.inst[i].sincePoll = 0,
                              !.inst[i].cdpStarted =
                                  SyncSessions(lease.inst[i].isLockedOut)]
    /\ UNCHANGED schedVars

\* the callback of the poll timer
PollTick(i) ==
    /\ lease.inst[i].polling
    /\ lease.inst[i].sincePoll >= PollMs
    /\ IF LockedByOther(lease, lease.inst[i].myId) /\ Fresh(lease)
       THEN lease' = [lease EXCEPT !.inst[i].isLockedOut = TRUE,
                                   !.inst[i].sincePoll = 0,
                                   !.inst[i].cdpStarted = FALSE]
       ELSE lease' = [lease EXCEPT !.lockOwner = lease.inst[i].myId,
                                   !.lastPing = now,
                                   !.inst[i].isLockedOut = FALSE,
                                   !.inst[i].sincePoll = 0,
                                   !.inst[i].cdpStarted = SyncSessions(FALSE)]
    /\ UNCHANGED schedVars

\* Scheduler.stop: both interval timers are cleared, the run flag is dropped
SchedulerStop(s) == [s EXCEPT !.silenceTimer = FALSE, !.isRunningQueue = FALSE]

\* stopPolling: the timer is cleared, the scheduler of the window and the CDP
\* handler are stopped; isLockedOut is left as it is
StopPolling(i) ==
    /\ lease.inst[i].polling
    /\ lease' = [lease EXCEPT !.inst[i].polling = FALSE,
                              !.inst[i].cdpStarted = FALSE]
    /\ sched' = IF i = Me THEN SchedulerStop(sched) ELSE sched
    /\ NoError
    /\ UNCHANGED <<store, jobs, updates, pendingChecks, pendingStarts, commands, cdp, client>>

\* time passes; a poll timer that is due fires before more time passes
LeaseTick ==
    /\ \A i \in Instances : lease.inst[i].polling => lease.inst[i].sincePoll < PollMs
    /\ lease' = [lease EXCEPT
                   !.lastPing = LeaseRecede(@),
                   !.inst = [i \in Instances |->
                               IF lease.inst[i].polling
                               THEN [lease.inst[i] EXCEPT !.sincePoll = @ + LeaseStepMs]
                               ELSE lease.inst[i]]]
    /\ UNCHANGED schedVars

\* the windows share an empty lock record; each reports its extension identifier
LeaseInit ==
    /\ store = [mode |-> "queue", prompts |-> PromptList(1), queueMode |-> "consume",
                silenceTimeout |-> SilenceTimeoutSec, checkPromptEnabled |-> FALSE,
                checkPromptText |-> CheckPromptText]
    /\ sched = NewScheduler(store)
    /\ \E ids \in [Instances -> ExtensionIds] : lease = NewLease(ids)
    /\ jobs = <<>>
    /\ updates = <<>>
    /\ pendingChecks = 0
    /\ pendingStarts = 0
    /\ commands = 0
    /\ errorShown = FALSE
    /\ client = NewClient
    /\ cdp = NewHandler

LeaseNext ==
    \/ \E i \in Instances : StartPolling(i)
    \/ \E i \in Instances : PollTick(i)
    \/ \E i \in Instances : StopPolling(i)
    \/ LeaseTick

LeaseSpec == LeaseInit /\ [][LeaseNext]_vars

\* ------------------------------------------- the scheduler of a window in standby
\* the operator starts the queue in window Me while the windows run the lock
\* protocol; the closures of queuePrompt run as the event loop reaches them
StandbyNext ==
    \/ LeaseNext
    \/ StartQueueBegin("manual")
    \/ StartQueueResume
    \/ ClosureStep

StandbySpec == LeaseInit /\ [][StandbyNext]_vars

\* -------------------------------------- the queue of a window switched off and on
\* one window, its lock free; the operator switches the extension on and off
\* (handleToggle: startPolling, stopPolling) and starts the queue by hand
ToggleInit ==
    /\ \E n \in 1..MaxPrompts :
          store = [mode |-> "queue", prompts |-> PromptList(n), queueMode |-> "consume",
                   silenceTimeout |-> SilenceTimeoutSec, checkPromptEnabled |-> FALSE,
                   checkPromptText |-> CheckPromptText]
    /\ sched = NewScheduler(store)
    /\ lease = NewLease([i \in Instances |-> "publisher.extension"])
    /\ jobs = <<>>
    /\ updates = <<>>
    /\ pendingChecks = 0
    /\ pendingStarts = 0
    /\ commands = 0
    /\ errorShown = FALSE
    /\ client = NewClient
    /\ cdp = NewHandler

ToggleNext ==
    \/ StartPolling(Me)
    \/ StopPolling(Me)
    \/ StartQueueBegin("manual")
    \/ StartQueueResume
    \/ ClosureStep
    \/ CheckSilenceBegin
    \/ \E c \in 0..MaxClicks : CheckSilenceQuiet(c)
    \/ \E c \in 0..MaxClicks : CheckSilenceConsume(c)
    \/ \E c \in 0..MaxClicks : CheckSilenceAdvance(c)
    \/ AdvanceResume
    \/ Tick

\* the event loop runs every continuation that is ready, time passes and the
\* silence timer fires while it is armed; the operator is under no obligation
ToggleSpec ==
    /\ ToggleInit
    /\ [][ToggleNext]_vars
    /\ WF_vars(ClosureStep)
    /\ WF_vars(AwaitSettles)
    /\ WF_vars(CheckSilenceBegin)
    /\ WF_vars(Tick)

\* ------------------------------------------ the click counter of the browser page
\* the payload verified a click: Analytics.trackClick counts it
TrackClick ==
    /\ cdp.clicksThisSession < MaxClicks
    /\ cdp' = [cdp EXCEPT !.clicksThisSession = @ + 1, !.clickTime = now]
    /\ NoError
    /\ UNCHANGED <<lease, client, store, sched, jobs, updates, pendingChecks, pendingStarts, commands>>

\* Analytics.collectROI: the counters are reported and set back to 0
CollectROI(h) == [h EXCEPT !.clicksThisSession = 0]

\* the 30 s statistics timer: collectAndSaveStats -> resetStats -> collectROI
CollectAndSaveStats ==
    /\ cdp.clicksThisSession > 0
    /\ cdp' = CollectROI(cdp)
    /\ NoError
    /\ UNCHANGED <<lease, client, store, sched, jobs, updates, pendingChecks, pendingStarts, commands>>

\* getStats: the click count the page reports
GetStats(h) == h.clicksThisSession

\* one tick of time passes for the scheduler and for the page
StatsTick ==
    /\ sched' = Elapse(sched)
    /\ cdp' = [cdp EXCEPT !.clickTime = Recede(@, TicksAbove(sched.config.silenceTimeout))]
    /\ NoError
    /\ UNCHANGED <<lease, client, store, jobs, updates, pendingChecks, pendingStarts, commands>>

StatsInit ==
    /\ \E n \in 1..MaxPrompts, qm \in {"consume", "loop"} :
          store = [mode |-> "queue", prompts |-> PromptList(n), queueMode |-> qm,
                   silenceTimeout |-> SilenceTimeoutSec, checkPromptEnabled |-> FALSE,
                   checkPromptText |-> CheckPromptText]
    /\ sched = NewScheduler(store)
    /\ lease = NewLease([i \in Instances |-> "publisher.extension"])
    /\ jobs = <<>>
    /\ updates = <<>>
    /\ pendingChecks = 0
    /\ pendingStarts = 0
    /\ commands = 0
    /\ errorShown = FALSE
    /\ client = NewClient
    /\ cdp = NewHandler

\* the queue runs while the page counts clicks and the statistics are collected
StatsNext ==
    \/ StartQueueBegin("manual")
    \/ StartQueueResume
    \/ ClosureStep
    \/ CheckSilenceBegin
    \/ CheckSilenceQuiet(GetStats(cdp))
    \/ CheckSilenceConsume(GetStats(cdp))
    \/ CheckSilenceAdvance(GetStats(cdp))
    \/ AdvanceResume
    \/ TrackClick
    \/ CollectAndSaveStats
    \/ StatsTick

StatsSpec == StatsInit /\ [][StatsNext]_vars

\* ------------------------------------------------ silence checks that overlap
\* a queue started by hand, one call at a time, and left to the silence timer,
\* paused and resumed
SilenceInit == StatsInit

SilenceNext ==
    \/ pendingStarts = 0 /\ StartQueueBegin("manual")
    \/ StartQueueResume
    \/ ClosureStep
    \/ CheckSilenceBegin
    \/ \E c \in 0..MaxClicks : CheckSilenceQuiet(c)
    \/ \E c \in 0..MaxClicks : CheckSilenceConsume(c)
    \/ \E c \in 0..MaxClicks : CheckSilenceAdvance(c)
    \/ AdvanceResume
    \/ PauseQueue
    \/ ResumeQueue
    \/ Tick

SilenceSpec == SilenceInit /\ [][SilenceNext]_vars

\* ------------------------------------------------- a running queue and the quota
\* a queue started by hand right after activation: startQueue has built the
\* runtime queue and dispatched item 0
PauseInit ==
    /\ \E n \in 1..MaxPrompts, qm \in {"consume", "loop"} :
          store = [mode |-> "queue", prompts |-> PromptList(n), queueMode |-> qm,
                   silenceTimeout |-> SilenceTimeoutSec, checkPromptEnabled |-> FALSE,
                   checkPromptText |-> CheckPromptText]
    /\ sched = StartQueueReset([NewScheduler(store) EXCEPT !.lastStartQueueTime = now])
    /\ jobs = ExecuteCurrentQueueItem(sched, <<>>)
    /\ lease = NewLease([i \in Instances |-> "publisher.extension"])
    /\ updates = <<>>
    /\ pendingChecks = 0
    /\ pendingStarts = 0
    /\ commands = 0
    /\ errorShown = FALSE
    /\ client = NewClient
    /\ cdp = NewHandler

\* the operator pauses and resumes while the quota poller reports
PauseNext ==
    \/ ClosureStep
    \/ CheckSilenceBegin
    \/ \E c \in 0..MaxClicks : CheckSilenceQuiet(c)
    \/ \E c \in 0..MaxClicks : CheckSilenceConsume(c)
    \/ \E c \in 0..MaxClicks : CheckSilenceAdvance(c)
    \/ AdvanceResume
    \/ \E e, qr, ac \in BOOLEAN : SetQuotaExhausted(e, qr, ac)
    \/ PauseQueue
    \/ ResumeQueue
    \/ Tick

PauseSpec == PauseInit /\ [][PauseNext]_vars

\* ------------------------------------------------------------ the CDP handler
\* (src/unnamed/part_003, class CDPHandler).  A call of the handler runs up to
\* its next await of a socket event or of a reply; the suspended calls are
\* kept in cdp.calls, the sockets the handler created in cdp.sockets and the
\* promises of _evaluate in cdp.requests.

\* what a Runtime.evaluate reply carries: str says result.result.value is a
\* string of JSON, the other fields are the fields of that JSON.  NoValue is a
\* reply without such a string: a protocol error or a thrown exception
NoValue == [str |-> FALSE, ok |-> FALSE, hasInput |-> FALSE, score |-> 0,
            hasAgentPanel |-> FALSE]
Done == [NoValue EXCEPT !.str = TRUE, !.ok = TRUE]
ProbeValues ==
    {NoValue} \cup {[str |-> TRUE, ok |-> FALSE, hasInput |-> hi, score |-> sc,
                     hasAgentPanel |-> ap] :
                       hi \in BOOLEAN, sc \in 0..MaxScore, ap \in BOOLEAN}
SendValues == {NoValue, Done, [NoValue EXCEPT !.str = TRUE]}
ReplyValues(kind) ==
    CASE kind = "probe" -> ProbeValues
      [] kind = "send" -> SendValues
      [] OTHER -> {NoValue, Done}

\* the lists _getPages resolves with: the pages listed, each once, in any order;
\* the empty list when the endpoint does not answer
PageLists ==
    {<<>>} \cup {<<t>> : t \in Targets}
           \cup {p \in Targets \X Targets : p[1] # p[2]}

\* title.toLowerCase().includes(workspaceName.toLowerCase())
LowerCase(str) ==
    CASE str = "Proj - Antigravity" -> "proj - antigravity"
      [] str = "other - Antigravity" -> "other - antigravity"
      [] OTHER -> str
Includes(str, part) ==
    \/ part = ""
    \/ part = "proj" /\ str = "proj - antigravity"
TitleMatches(title, name) == Includes(LowerCase(title), LowerCase(name))

\* connections.set(id, entry): a new key goes to the end of the Map's order
SetEntry(h, t, sock) ==
    [h EXCEPT !.link[t] = sock,
              !.order = IF h.link[t] = 0 THEN Append(@, t) ELSE @]

\* connections.delete(id): the entry leaves the Map, and a loop over the Map
\* that is past it stays where it is among the entries left
DeleteEntry(h, t) ==
    IF h.link[t] = 0 THEN h
    ELSE LET k == CHOOSE k \in 1..Len(h.order) : h.order[k] = t
         IN [h EXCEPT !.link[t] = 0,
                      !.order = Remove(@, k),
                      !.calls = [c \in CallIds |->
                                   IF h.calls[c].pc \in {"probe", "stop"} /\ h.calls[c].i >= k
                                   THEN [h.calls[c] EXCEPT !.i = @ - 1]
                                   ELSE h.calls[c]]]

\* msgId++ hands every request the same id
NextMsgIdReused(h) == h.msgId

\* msgId++
NextMsgId(h) == h.msgId + 1

\* the guard of _evaluate: an entry for the id whose socket is OPEN
CanEvaluate(h, t) == h.link[t] # 0 /\ h.sockets[h.link[t]].state = "open"

\* _evaluate past its guard: the request is sent with id msgId, its listener is
\* registered on the socket and call c waits for the promise
Evaluate(h, c, t, kind) ==
    [h EXCEPT !.msgId = NextMsgId(h),
              !.requests = Append(@, [id |-> h.msgId, ws |-> h.link[t], kind |-> kind,
                                      call |-> c, state |-> "pending", by |-> 0,
                                      listening |-> TRUE, answer |-> "none"]),
              !.calls[c].pc = kind,
              !.calls[c].req = Len(h.requests) + 1,
              !.calls[c].sentTo = IF kind = "send" THEN @ \cup {h.link[t]} ELSE @]

RECURSIVE RunPages(_, _)

\* the end of one turn of the loop of start
NextPage(h, c) ==
    RunPages([h EXCEPT !.calls[c].i = @ + 1, !.calls[c].conn = 0, !.calls[c].req = 0], c)

\* _inject from its second _evaluate, the call of __autoAcceptStart
StartEval(h, c, t) ==
    IF CanEvaluate(h, t) THEN Evaluate(h, c, t, "start") ELSE NextPage(h, c)

\* _inject: an entry not yet injected gets the payload; an _evaluate that
\* returns at its guard returns undefined without raising
Inject(h, c, t) ==
    LET conn == h.link[t]
    IN IF conn = 0 THEN NextPage(h, c)
       ELSE IF ~h.sockets[conn].injected
            THEN IF h.sockets[conn].state = "open"
                 THEN Evaluate([h EXCEPT !.calls[c].conn = conn], c, t, "payload")
                 ELSE StartEval([h EXCEPT !.sockets[conn].injected = TRUE], c, t)
            ELSE StartEval(h, c, t)

\* _connect up to its await: a new WebSocket for the target
Connect(h, c, t) ==
    [h EXCEPT !.sockets = Append(@, [target |-> t, state |-> "connecting",
                                     injected |-> FALSE, pageTitle |-> "",
                                     payloads |-> 0, call |-> c]),
              !.calls[c].pc = "connect"]

\* start after _connect: the entry, when there is one, takes the page's title,
\* then _inject
AfterConnect(h, c, t) ==
    IF h.link[t] # 0
    THEN Inject([h EXCEPT !.sockets[h.link[t]].pageTitle = h.titles[t]], c, t)
    ELSE Inject(h, c, t)

\* the loop of start from page i on, up to the next await or the end of the call
RunPages(h, c) ==
    LET call == h.calls[c]
    IN IF call.i > Len(call.pages) THEN [h EXCEPT !.calls[c] = NoCall]
       ELSE LET t == call.pages[call.i]
            IN IF h.link[t] = 0 THEN Connect(h, c, t) ELSE AfterConnect(h, c, t)

\* one entry of connectionResults: a reply that carries no JSON string, and a
\* probe that raised, count as no input with score 0
ProbeResult(t, v) ==
    [id |-> t, hasInput |-> v.str /\ v.hasInput,
     score |-> IF v.str THEN v.score ELSE 0,
     hasAgentPanel |-> v.str /\ v.hasAgentPanel]

\* the comparator of targetsWithInput.sort: negative when a goes first
CompareTargets(a, b) ==
    LET aPanel == IF a.hasAgentPanel THEN 1 ELSE 0
        bPanel == IF b.hasAgentPanel THEN 1 ELSE 0
    IN IF aPanel # bPanel THEN bPanel - aPanel ELSE b.score - a.score

\* targetsWithInput.sort(...)[0]: the sort is stable, so the first of the
\* entries that no entry goes before
SortFirst(seq) ==
    seq[CHOOSE k \in 1..Len(seq) :
          /\ \A j \in 1..Len(seq) : CompareTargets(seq[j], seq[k]) >= 0
          /\ \A j \in 1..(k - 1) : CompareTargets(seq[k], seq[j]) < 0]

\* the filters of _sendPromptV2 without the workspace preference
TargetsWithInputAnyWorkspace(h, results) ==
    LET HasInput(r) == r.hasInput
        HasPanel(r) == r.hasAgentPanel
        withInput == SelectSeq(results, HasInput)
        agentPanelTargets == SelectSeq(withInput, HasPanel)
    IN IF Len(agentPanelTargets) > 0 THEN agentPanelTargets ELSE withInput

\* the filters of _sendPromptV2: usable input, the agent panel when some
\* target has it, the workspace's pages when a workspace name is set and some
\* title holds it
TargetsWithInput(h, results) ==
    LET HasInput(r) == r.hasInput
        HasPanel(r) == r.hasAgentPanel
        InWorkspace(r) ==
            TitleMatches(IF h.link[r.id] # 0 THEN h.sockets[h.link[r.id]].pageTitle ELSE "",
                         h.workspaceName)
        withInput == SelectSeq(results, HasInput)
        agentPanelTargets == SelectSeq(withInput, HasPanel)
        preferred == IF Len(agentPanelTargets) > 0 THEN agentPanelTargets ELSE withInput
        workspaceMatches == SelectSeq(preferred, InWorkspace)
    IN IF h.workspaceName # NoWorkspace /\ Len(preferred) > 1 /\ Len(workspaceMatches) > 0
       THEN workspaceMatches
       ELSE preferred

\* sendPrompt reports a send whatever happened
ReturnSent(h, c, r) == [h EXCEPT !.calls[c].pc = "returned", !.calls[c].ret = 1]

\* sendPrompt returns r to its caller
Return(h, c, r) == [h EXCEPT !.calls[c].pc = "returned", !.calls[c].ret = r]

\* _sendPromptV2 after the probes: the first target of the sorted list gets the
\* send expression; no target, or a target _evaluate cannot reach, gives 0
SendToBest(h, c) ==
    LET targetsWithInput == TargetsWithInput(h, h.calls[c].results)
    IN IF Len(targetsWithInput) = 0 THEN Return(h, c, 0)
       ELSE LET target == SortFirst(targetsWithInput).id
                chosen == [h EXCEPT !.calls[c].target = target]
            IN IF CanEvaluate(h, target)
               THEN Evaluate(chosen, c, target, "send")
               ELSE Return(chosen, c, 0)

RECURSIVE ProbeNext(_, _)
\* the probe loop of _sendPromptV2 over the Map, i entries visited so far
ProbeNext(h, c) ==
    LET call == h.calls[c]
    IN IF call.i >= Len(h.order) THEN SendToBest(h, c)
       ELSE LET t == h.order[call.i + 1]
                at == [h EXCEPT !.calls[c].i = @ + 1, !.calls[c].target = t]
            IN IF CanEvaluate(h, t)
               THEN Evaluate(at, c, t, "probe")
               ELSE ProbeNext([at EXCEPT !.calls[c].results =
                                             Append(@, ProbeResult(t, NoValue))], c)

\* conn.ws.close(): an OPEN socket begins its closing handshake
CloseWs(h, sock) ==
    IF sock # 0 /\ h.sockets[sock].state = "open"
    THEN [h EXCEPT !.sockets[sock].state = "closing"]
    ELSE h

\* connections.clear(), the last statement of stop
ClearConnections(h, c) ==
    [h EXCEPT !.link = [t \in Targets |-> 0], !.order = <<>>, !.calls[c] = NoCall]

RECURSIVE StopNext(_, _)
\* the loop of stop over the Map, i entries visited so far: the page is told to
\* stop, then the socket of the entry is closed
StopNext(h, c) ==
    LET call == h.calls[c]
    IN IF call.i >= Len(h.order) THEN ClearConnections(h, c)
       ELSE LET t == h.order[call.i + 1]
                at == [h EXCEPT !.calls[c].i = @ + 1, !.calls[c].conn = h.link[t]]
            IN IF CanEvaluate(h, t)
               THEN Evaluate(at, c, t, "stop")
               ELSE StopNext(CloseWs(at, h.link[t]), c)

\* the continuation of call c when the promise it awaits resolves with v
\* (resolved) or rejects with the timeout
Continue(h, c, resolved, v) ==
    LET call == h.calls[c]
    IN CASE call.pc = "payload" ->
              IF resolved
              THEN StartEval([h EXCEPT !.sockets[call.conn].injected = TRUE], c,
                             call.pages[call.i])
              ELSE NextPage(h, c)
         [] call.pc = "start" -> NextPage(h, c)
         [] call.pc = "probe" ->
              ProbeNext([h EXCEPT !.calls[c].results =
                                     Append(@, ProbeResult(call.target,
                                                           IF resolved THEN v ELSE NoValue))], c)
         [] call.pc = "send" -> Return(h, c, IF resolved /\ v.str /\ v.ok THEN 1 ELSE 0)
         [] call.pc = "stop" ->
              IF resolved THEN StopNext(CloseWs(h, call.conn), c) ELSE StopNext(h, c)
         [] OTHER -> h

\* the 'message' listeners of _evaluate on the socket of request r, for the
\* reply that carries r's id: every listener with that id leaves the socket and
\* calls resolve, which settles a promise only if it is still pending
Matches(h, r, q) ==
    /\ h.requests[q].listening
    /\ h.requests[q].ws = h.requests[r].ws
    /\ h.requests[q].id = h.requests[r].id

OnMessage(h, r) ==
    [h EXCEPT !.requests =
        [q \in 1..Len(h.requests) |->
           IF Matches(h, r, q)
           THEN IF h.requests[q].state = "pending"
                THEN [h.requests[q] EXCEPT !.listening = FALSE, !.state = "resolved",
                                           !.by = r]
                ELSE [h.requests[q] EXCEPT !.listening = FALSE]
           ELSE h.requests[q]]]

RECURSIVE Wake(_, _, _, _, _)
\* the calls whose promise the message resolved with v go on, in the order of
\* their listeners, from listener q
Wake(before, h, r, v, q) ==
    IF q > Len(before.requests) THEN h
    ELSE IF Matches(before, r, q) /\ before.requests[q].state = "pending"
         THEN Wake(before, Continue(h, before.requests[q].call, TRUE, v), r, v, q + 1)
         ELSE Wake(before, h, r, v, q + 1)

\* the variables no action of the handler touches
handlerFrame == <<store, sched, jobs, updates, pendingChecks, pendingStarts, commands,
                  errorShown, lease, client>>

Bounded(h) == Len(h.requests) <= MaxRequests /\ Len(h.sockets) <= MaxSockets

\* start(config) up to its await of _getPages
Start(c, name) ==
    /\ cdp.calls[c].pc = "idle"
    /\ \A d \in 1..(c - 1) : cdp.calls[d].pc # "idle"
    /\ cdp' = [cdp EXCEPT !.workspaceName = name, !.calls[c].pc = "pages"]
    /\ UNCHANGED handlerFrame

\* _getPages resolves and the loop of start runs to its first await
GetPagesReturns(c, pages) ==
    /\ cdp.calls[c].pc = "pages"
    /\ cdp' = RunPages([cdp EXCEPT !.calls[c].pages = pages, !.calls[c].i = 1], c)
    /\ Bounded(cdp')
    /\ UNCHANGED handlerFrame

\* ws 'open': the entry of the id is set to a new object, and start goes on
SocketOpen(sock) ==
    /\ sock \in 1..Len(cdp.sockets)
    /\ cdp.sockets[sock].state = "connecting"
    /\ LET t == cdp.sockets[sock].target
           opened == SetEntry([cdp EXCEPT !.sockets[sock].state = "open"], t, sock)
       IN cdp' = AfterConnect([opened EXCEPT !.sockets[sock].call = 0],
                              cdp.sockets[sock].call, t)
    /\ Bounded(cdp')
    /\ UNCHANGED handlerFrame

\* ws 'error' on a socket that never opened, then its 'close': _connect
\* resolves false and the entry of the id is deleted
SocketError(sock) ==
    /\ sock \in 1..Len(cdp.sockets)
    /\ cdp.sockets[sock].state = "connecting"
    /\ LET t == cdp.sockets[sock].target
           closed == DeleteEntry([cdp EXCEPT !.sockets[sock].state = "closed"], t)
       IN cdp' = AfterConnect([closed EXCEPT !.sockets[sock].call = 0],
                              cdp.sockets[sock].call, t)
    /\ Bounded(cdp')
    /\ UNCHANGED handlerFrame

\* the closing handshake of an open socket begins: readyState CLOSING
SocketClosing(sock) ==
    /\ sock \in 1..Len(cdp.sockets)
    /\ cdp.sockets[sock].state = "open"
    /\ cdp' = [cdp EXCEPT !.sockets[sock].state = "closing"]
    /\ UNCHANGED handlerFrame

\* ws 'close': the entry of the socket's id is deleted
SocketClose(sock) ==
    /\ sock \in 1..Len(cdp.sockets)
    /\ cdp.sockets[sock].state \in {"open", "closing"}
    /\ cdp' = DeleteEntry([cdp EXCEPT !.sockets[sock].state = "closed"],
                          cdp.sockets[sock].target)
    /\ UNCHANGED handlerFrame

\* the page answers request r with v; a payload that ran without an exception
\* is now in the page
CdpReply(r, v) ==
    /\ r \in 1..Len(cdp.requests)
    /\ cdp.requests[r].answer = "none"
    /\ cdp.sockets[cdp.requests[r].ws].state \in {"open", "closing"}
    /\ v \in ReplyValues(cdp.requests[r].kind)
    /\ LET ran == [cdp EXCEPT !.requests[r].answer = IF v.ok THEN "ok" ELSE "fail",
                              !.sockets[cdp.requests[r].ws].payloads =
                                   IF cdp.requests[r].kind = "payload" /\ v.ok
                                   THEN @ + 1 ELSE @]
       IN cdp' = Wake(ran, OnMessage(ran, r), r, v, 1)
    /\ Bounded(cdp')
    /\ UNCHANGED handlerFrame

\* the timer of request r fires: reject(new Error('CDP Timeout')); the listener
\* stays on the socket
CdpTimeout(r) ==
    /\ r \in 1..Len(cdp.requests)
    /\ cdp.requests[r].state = "pending"
    /\ cdp' = Continue([cdp EXCEPT !.requests[r].state = "rejected", !.requests[r].by = -1],
                       cdp.requests[r].call, FALSE, NoValue)
    /\ Bounded(cdp')
    /\ UNCHANGED handlerFrame

\* sendPrompt(text): nothing to send, or no connection, returns 0; otherwise
\* _sendPromptV2 probes the connections in the order of the Map
SendPrompt(c, text) ==
    /\ cdp.calls[c].pc = "idle"
    /\ \A d \in 1..(c - 1) : cdp.calls[d].pc # "idle"
    /\ IF text = "" \/ Len(cdp.order) = 0
       THEN cdp' = Return(cdp, c, 0)
       ELSE cdp' = ProbeNext(cdp, c)
    /\ Bounded(cdp')
    /\ UNCHANGED handlerFrame

\* the caller of sendPrompt takes the count
SendPromptReturns(c) ==
    /\ cdp.calls[c].pc = "returned"
    /\ cdp' = [cdp EXCEPT !.calls[c] = NoCall]
    /\ UNCHANGED handlerFrame

\* the handler refreshing its connections while pages come and go
CdpInit ==
    /\ store = [mode |-> "queue", prompts |-> PromptList(1), queueMode |-> "consume",
                silenceTimeout |-> SilenceTimeoutSec, checkPromptEnabled |-> FALSE,
                checkPromptText |-> CheckPromptText]
    /\ sched = NewScheduler(store)
    /\ lease = NewLease([i \in Instances |-> "publisher.extension"])
    /\ jobs = <<>>
    /\ updates = <<>>
    /\ pendingChecks = 0
    /\ pendingStarts = 0
    /\ commands = 0
    /\ errorShown = FALSE
    /\ client = NewClient
    /\ cdp = [NewHandler EXCEPT !.titles = [t \in Targets |-> "Proj - Antigravity"]]

CdpNext ==
    \/ \E c \in CallIds : Start(c, NoWorkspace)
    \/ \E c \in CallIds, pages \in PageLists : GetPagesReturns(c, pages)
    \/ \E sock \in 1..MaxSockets : SocketOpen(sock)
    \/ \E sock \in 1..MaxSockets : SocketError(sock)
    \/ \E sock \in 1..MaxSockets : SocketClose(sock)
    \/ \E r \in 1..MaxRequests : \E v \in ProbeValues \cup SendValues : CdpReply(r, v)
    \/ \E r \in 1..MaxRequests : CdpTimeout(r)

CdpSpec == CdpInit /\ [][CdpNext]_vars

\* a handler whose refreshes have connected and injected the targets in live,
\* each entry holding the title of its page
Connected(live, titles, name) ==
    LET IsLive(t) == t \in live
        order == SelectSeq([t \in Targets |-> t], IsLive)
    IN [NewHandler EXCEPT
          !.sockets = [k \in 1..Len(order) |->
                         [target |-> order[k], state |-> "open", injected |-> TRUE,
                          pageTitle |-> titles[order[k]], payloads |-> 1, call |-> 0]],
          !.order = order,
          !.link = [t \in Targets |->
                      IF t \in live THEN CHOOSE k \in 1..Len(order) : order[k] = t ELSE 0],
          !.msgId = 2 * Len(order) + 1,
          !.workspaceName = name,
          !.titles = titles]

\* sendPrompt over every set of connections, titles and workspace preference
SendInit ==
    /\ store = [mode |-> "queue", prompts |-> PromptList(1), queueMode |-> "consume",
                silenceTimeout |-> SilenceTimeoutSec, checkPromptEnabled |-> FALSE,
                checkPromptText |-> CheckPromptText]
    /\ sched = NewScheduler(store)
    /\ lease = NewLease([i \in Instances |-> "publisher.extension"])
    /\ jobs = <<>>
    /\ updates = <<>>
    /\ pendingChecks = 0
    /\ pendingStarts = 0
    /\ commands = 0
    /\ errorShown = FALSE
    /\ client = NewClient
    /\ \E live \in SUBSET Targets, titles \in [Targets -> PageTitles],
          name \in WorkspaceNames :
          cdp = Connected(live, titles, name)

SendNext ==
    \/ \E text \in {"", "Task A"} : SendPrompt(1, text)
    \/ SendPromptReturns(1)
    \/ \E sock \in 1..MaxSockets : SocketClosing(sock)
    \/ \E sock \in 1..MaxSockets : SocketClose(sock)
    \/ \E r \in 1..MaxRequests : \E v \in ProbeValues \cup SendValues : CdpReply(r, v)
    \/ \E r \in 1..MaxRequests : CdpTimeout(r)

SendSpec == SendInit /\ [][SendNext]_vars

\* ------------------------------------------------- the pool stopped and started
\* stop(): the entries are visited, their sockets closed and the Map cleared
Stop(c) ==
    /\ cdp.calls[c].pc = "idle"
    /\ \A d \in 1..(c - 1) : cdp.calls[d].pc # "idle"
    /\ cdp' = StopNext(cdp, c)
    /\ Bounded(cdp')
    /\ UNCHANGED handlerFrame

\* a handler whose refreshes have connected and injected some of the targets
PoolInit ==
    /\ store = [mode |-> "queue", prompts |-> PromptList(1), queueMode |-> "consume",
                silenceTimeout |-> SilenceTimeoutSec, checkPromptEnabled |-> FALSE,
                checkPromptText |-> CheckPromptText]
    /\ sched = NewScheduler(store)
    /\ lease = NewLease([i \in Instances |-> "publisher.extension"])
    /\ jobs = <<>>
    /\ updates = <<>>
    /\ pendingChecks = 0
    /\ pendingStarts = 0
    /\ commands = 0
    /\ errorShown = FALSE
    /\ client = NewClient
    /\ \E live \in SUBSET Targets :
          cdp = Connected(live, [t \in Targets |-> "Proj - Antigravity"], NoWorkspace)

\* stopPolling and startPolling in turn: one call of the handler at a time
PoolNext ==
    \/ Stop(1)
    \/ Start(1, NoWorkspace)
    \/ \E pages \in PageLists : GetPagesReturns(1, pages)
    \/ \E sock \in 1..MaxSockets : SocketOpen(sock)
    \/ \E sock \in 1..MaxSockets : SocketError(sock)
    \/ \E sock \in 1..MaxSockets : SocketClose(sock)
    \/ \E r \in 1..MaxRequests : \E v \in ProbeValues \cup SendValues : CdpReply(r, v)
    \/ \E r \in 1..MaxRequests : CdpTimeout(r)

PoolSpec == PoolInit /\ [][PoolNext]_vars

\* ------------------------------------------------------- the Antigravity client
\* the messages a request can reject with, beside 'Client not connected'
RequestErrors == {"connect ECONNREFUSED 127.0.0.1", "Request timeout",
                  "Invalid JSON response"}

\* the test of getUserStatus for an error of the connection:
\* message.includes('ECONNREFUSED') || includes('timeout') || includes('not connected')
LooksLikeConnectionError(message) ==
    \/ message = "connect ECONNREFUSED 127.0.0.1"
    \/ message = "Request timeout"
    \/ message = "Client not connected"

\* the variables no action of the client touches
clientFrame == <<store, sched, jobs, updates, pendingChecks, pendingStarts, commands,
                 errorShown, lease, cdp>>

\* getUserStatus rejects with the error it caught
Rejects(cl, message) == [cl EXCEPT !.pc = "idle", !.error = "", !.result = message]

\* the ports processFinder.find reports
Ports == {42100, 42101}

\* connect after processFinder.find found the server: init, and the attempts
\* start again from 0
ConnectSucceeds(cl, port) ==
    [cl EXCEPT !.connected = TRUE, !.port = port, !.reconnectAttempts = 0]

\* the catch block of getUserStatus up to its next await: an error of the
\* connection leads to reconnect, which gives up at maxReconnectAttempts or
\* disconnects and waits for its delay and for processFinder.find
Caught(cl, message) ==
    IF LooksLikeConnectionError(message)
          /\ cl.reconnectAttempts < MaxReconnectAttempts
    THEN [cl EXCEPT !.reconnectAttempts = @ + 1, !.connected = FALSE, !.port = 0,
                    !.pc = "find", !.error = message]
    ELSE Rejects(cl, message)

\* getUserStatus up to its first await: request rejects at once when the
\* client is not connected
Requested(cl) ==
    IF cl.connected THEN [cl EXCEPT !.pc = "request"]
    ELSE Caught(cl, "Client not connected")

\* the poller, or a command, calls getUserStatus
GetUserStatus ==
    /\ client.pc = "idle"
    /\ client.polls < MaxPolls
    /\ client' = Requested([client EXCEPT !.polls = @ + 1, !.rounds = 0,
                                          !.result = "none"])
    /\ UNCHANGED clientFrame

\* the language server answers the request and the snapshot is returned
RequestResolves ==
    /\ client.pc = "request"
    /\ client' = [client EXCEPT !.pc = "idle", !.result = "snapshot"]
    /\ UNCHANGED clientFrame

\* the request fails
RequestRejects(message) ==
    /\ client.pc = "request"
    /\ client' = Caught(client, message)
    /\ UNCHANGED clientFrame

\* reconnect's connect settles: with the server found the client is
\* initialised and getUserStatus is called again; otherwise the error caught is
\* thrown
FindSettles(found, port) ==
    /\ client.pc = "find"
    /\ IF found
       THEN /\ client.rounds < MaxRounds
            /\ client' = Requested([ConnectSucceeds(client, port)
                                       EXCEPT !.rounds = @ + 1, !.error = ""])
       ELSE client' = Rejects(client, client.error)
    /\ UNCHANGED clientFrame

\* a client that activation has connected, or has failed to connect
ClientInit ==
    /\ store = [mode |-> "queue", prompts |-> PromptList(1), queueMode |-> "consume",
                silenceTimeout |-> SilenceTimeoutSec, checkPromptEnabled |-> FALSE,
                checkPromptText |-> CheckPromptText]
    /\ sched = NewScheduler(store)
    /\ lease = NewLease([i \in Instances |-> "publisher.extension"])
    /\ jobs = <<>>
    /\ updates = <<>>
    /\ pendingChecks = 0
    /\ pendingStarts = 0
    /\ commands = 0
    /\ errorShown = FALSE
    /\ cdp = NewHandler
    /\ client \in {NewClient} \cup {ConnectSucceeds(NewClient, port) : port \in Ports}

ClientNext ==
    \/ GetUserStatus
    \/ RequestResolves
    \/ \E message \in RequestErrors : RequestRejects(message)
    \/ \E found \in BOOLEAN, port \in Ports : FindSettles(found, port)

ClientSpec == ClientInit /\ [][ClientNext]_vars

\* ----------------------------------------------------------- addToHistory alone
\* the history after n sends of prompts taken in turn from the list, from o on
SomeHistory(n, o) == [k \in 1..n |-> PromptTexts[((k + o) % Len(PromptTexts)) + 1]]

\* histories that are short and histories that are full or one short of it
HistInit ==
    /\ store = [mode |-> "queue", prompts |-> PromptList(1), queueMode |-> "consume",
                silenceTimeout |-> SilenceTimeoutSec, checkPromptEnabled |-> FALSE,
                checkPromptText |-> CheckPromptText]
    /\ \E n \in (0..MaxPrompts) \cup {HistoryLimit - 1, HistoryLimit},
          o \in 1..Len(PromptTexts) :
          sched = [NewScheduler(store) EXCEPT !.promptHistory = SomeHistory(n, o)]
    /\ lease = NewLease([i \in Instances |-> "publisher.extension"])
    /\ jobs = <<>>
    /\ updates = <<>>
    /\ pendingChecks = 0
    /\ pendingStarts = 0
    /\ commands = 0
    /\ errorShown = FALSE
    /\ client = NewClient
    /\ cdp = NewHandler

\* addToHistory(text) after a confirmed send
HistoryAppend(text) ==
    /\ Budget
    /\ sched' = [sched EXCEPT !.promptHistory = AddToHistory(@, text)]
    /\ commands' = commands + 1
    /\ NoError
    /\ UNCHANGED <<lease, cdp, client, store, jobs, updates, pendingChecks, pendingStarts>>

HistNext == \E k \in 1..Len(PromptTexts) : HistoryAppend(PromptTexts[k])

HistSpec == HistInit /\ [][HistNext]_vars

\* ------------------------------------------------------------- properties
\* the closure queuePrompt chains for a queue item with the given text
ItemJob(s, text) ==
    [text |-> text, runId |-> s.queueRunId, chain |-> s.promptQueue,
     pc |-> "queued", attempts |-> 0, src |-> "item"]

\* a step in which an advanceQueue call reaches its queueIndex++
AdvanceCompletes ==
    \/ \E c \in 0..MaxClicks : CheckSilenceAdvance(c)
    \/ AdvanceResume

\* C1: with check prompts disabled, startQueue over a non-empty list of N prompts
\* builds the N tasks in list order, puts queueIndex at 0 and dispatches the first
\* task; every advanceQueue of the running queue that is not the last raises
\* queueIndex by one and dispatches exactly the task at the new index; the
\* advanceQueue at the last task ends the run under consume and puts queueIndex
\* back to 0, still running, under loop.
C1_TasksInOrder ==
    [][ /\ (StartQueueResume /\ ~sched.config.checkPromptEnabled
                             /\ Len(sched.config.prompts) > 0)
           => /\ sched'.queueIndex = 0
              /\ sched'.isRunningQueue
              /\ Len(sched'.runtimeQueue) = Len(sched.config.prompts)
              /\ \A k \in 1..Len(sched.config.prompts) :
                    sched'.runtimeQueue[k] = [type |-> "task", index |-> k - 1,
                                              text |-> sched.config.prompts[k]]
              /\ jobs' = Append(jobs, ItemJob(sched', sched.config.prompts[1]))
        /\ (AdvanceCompletes /\ sched.isRunningQueue /\ ~sched.config.checkPromptEnabled
                             /\ sched.queueIndex < Len(sched.runtimeQueue))
           => LET next == sched.queueIndex + 1
              IN IF next < Len(sched.runtimeQueue)
                 THEN /\ sched'.queueIndex = next
                      /\ sched'.isRunningQueue
                      /\ sched'.runtimeQueue = sched.runtimeQueue
                      /\ sched.runtimeQueue[next + 1].type = "task"
                      /\ sched.runtimeQueue[next + 1].index = next
                      /\ jobs' = Append(jobs, ItemJob(sched', sched.runtimeQueue[next + 1].text))
                 ELSE IF sched.config.queueMode = "consume"
                 THEN ~sched'.isRunningQueue /\ jobs' = jobs
                 ELSE sched'.queueIndex = 0 /\ sched'.isRunningQueue
      ]_vars

\* C1 witness: a consume run over two tasks advanced once: the first task was
\* sent and consumed, the second is dispatched at queueIndex 1
C1_Witness ==
    /\ sched.isRunningQueue
    /\ ~sched.config.checkPromptEnabled
    /\ sched.config.queueMode = "consume"
    /\ sched.queueIndex = 1
    /\ sched.queueRunId = 0
    /\ commands = 1
    /\ sched.promptHistory = <<"Task A">>
    /\ store.prompts = <<"Task B">>
    /\ jobs = <<ItemJob(sched, "Task B")>>

\* a reply of cdpHandler.sendPrompt reaches the closure j with the count n
SendReplies(j, n) == QueuePromptReply(j, n) \/ QueuePromptRetryReply(j, n)

C4_RetryDelivers ==
    [][ \A j \in 1..Len(jobs) :
          (QueuePromptRetryReply(j, 1) /\ jobs[j].src = "item" /\ sched.isRunningQueue
              /\ ~sched.isStopped /\ jobs[j].runId = sched.queueRunId)
          => /\ sched'.promptHistory = Append(sched.promptHistory, jobs[j].text)
             /\ sched'.hasSentCurrentItem
             /\ sched'.isRunningQueue
             /\ sched'.queueIndex = sched.queueIndex
             /\ sched'.runtimeQueue = sched.runtimeQueue
             /\ ~errorShown'
             /\ jobs' = Remove(jobs, j)
      ]_vars


\* C4 witness: the first attempt for the only task of the first run reported 0 and
\* the retry after the forced resync awaits its reply
C4_Witness ==
    /\ sched.isRunningQueue
    /\ sched.queueIndex = 0
    /\ ~sched.hasSentCurrentItem
    /\ sched.promptHistory = <<>>
    /\ jobs = <<[ItemJob(sched, "Task A") EXCEPT !.pc = "resend", !.attempts = 2]>>

\* a step in which checkSilence calls advanceQueue, getStats having replied c
CallsAdvance(c) == CheckSilenceConsume(c) \/ CheckSilenceAdvance(c)

\* C5: whenever checkSilence calls advanceQueue, isPaused is false,
\* isQuotaExhausted is false and the current item has run for longer than the
\* minimum dwell time.
C5_NoAdvanceWhileHeld ==
    [][ \A c \in 0..MaxClicks :
          CallsAdvance(c)
          => /\ ~sched.isPaused
             /\ ~sched.isQuotaExhausted
             /\ now - sched.taskStartTime > MinTaskMs
      ]_vars

\* C6: whenever checkSilence calls advanceQueue, the current item has run for at
\* least the minimum dwell time, its send was confirmed, getStats reported no new
\* click, and the last observed activity lies further back than the configured
\* silenceTimeout (seconds).
C6_AdvanceOnlyOnSilence ==
    [][ \A c \in 0..MaxClicks :
          CallsAdvance(c)
          => /\ now - sched.taskStartTime >= MinTaskMs
             /\ sched.hasSentCurrentItem
             /\ c <= sched.lastClickCount
             /\ sched.lastActivityTime # 0
             /\ now - sched.lastActivityTime > store.silenceTimeout * 1000
      ]_vars

\* C6 witness: a loop run over one task was advanced by silence: the task was
\* sent, stayed silent, and is dispatched again at queueIndex 0
C6_Witness ==
    /\ sched.isRunningQueue
    /\ sched.config.queueMode = "loop"
    /\ ~sched.config.checkPromptEnabled
    /\ Len(sched.runtimeQueue) = 1
    /\ sched.queueIndex = 0
    /\ sched.promptHistory = <<"Task A">>
    /\ ~sched.hasSentCurrentItem
    /\ sched.taskStartTime = now
    /\ commands = 1
    /\ jobs = <<ItemJob(sched, "Task A")>>

\* C7: with a queue running and queue-resume enabled, the falling edge of the
\* quota flag leaves queueIndex, the runtime queue and the running state where
\* they are and dispatches the text of the current item again (there is nothing
\* to dispatch when the running queue has no item at queueIndex).
C7_QuotaResumeRedispatches ==
    [][ \A ac \in BOOLEAN :
          (SetQuotaExhausted(FALSE, TRUE, ac) /\ sched.isQuotaExhausted
              /\ sched.isRunningQueue)
          => /\ sched'.queueIndex = sched.queueIndex
             /\ sched'.isRunningQueue
             /\ sched'.runtimeQueue = sched.runtimeQueue
             /\ IF sched.queueIndex < Len(sched.runtimeQueue)
                THEN jobs' = Append(jobs, ItemJob(sched,
                                sched.runtimeQueue[sched.queueIndex + 1].text))
                ELSE jobs' = jobs
      ]_vars

\* C7 witness: the second task of a consume run was sent, the quota ran out and
\* came back, and the second task is dispatched again at queueIndex 1
C7_Witness ==
    /\ sched.isRunningQueue
    /\ ~sched.isQuotaExhausted
    /\ sched.config.queueMode = "consume"
    /\ ~sched.config.checkPromptEnabled
    /\ sched.queueIndex = 1
    /\ sched.queueRunId = 0
    /\ sched.promptHistory = <<"Task A", "Task B">>
    /\ ~sched.hasSentCurrentItem
    /\ commands = 3
    /\ jobs = <<ItemJob(sched, "Task B")>>

\* C8: under the consume policy every advanceQueue of a running queue leaves the
\* persisted prompts list exactly one entry shorter.
C8_ConsumeShortensByOne ==
    [][ (AdvanceCompletes /\ sched.isRunningQueue /\ sched.config.queueMode = "consume")
        => Len(store'.prompts) = Len(store.prompts) - 1
      ]_vars

\* C9: under the consume policy the entry advanceQueue takes off the persisted
\* prompts list is the task the queue has just completed: the current item is a
\* task and its text is the entry removed.
C9_RemovesCompletedTask ==
    [][ \A c \in 0..MaxClicks :
          CheckSilenceConsume(c)
          => /\ sched.queueIndex < Len(sched.runtimeQueue)
             /\ sched.runtimeQueue[sched.queueIndex + 1].type = "task"
             /\ sched.runtimeQueue[sched.queueIndex + 1].text = Head(store.prompts)
             /\ updates'[Len(updates')].prompts = Tail(store.prompts)
      ]_vars

\* C10: the runtimeQueue startQueue builds over N prompts has, with check prompts
\* enabled, exactly 2N items, task i followed by a check item carrying the
\* configured check text, in list order; with check prompts disabled it has
\* exactly the N tasks in list order.
C10_RuntimeQueueShape ==
    [][ StartQueueResume
        => LET cfg == sched.config
               N == Len(cfg.prompts)
               q == sched'.runtimeQueue
           IN IF cfg.checkPromptEnabled
              THEN /\ Len(q) = 2 * N
                   /\ \A i \in 0..(N - 1) :
                         /\ q[2 * i + 1] = [type |-> "task", text |-> cfg.prompts[i + 1],
                                            index |-> i]
                         /\ q[2 * i + 2] = [type |-> "check", text |-> store.checkPromptText,
                                            afterIndex |-> i]
              ELSE /\ Len(q) = N
                   /\ \A i \in 0..(N - 1) :
                         q[i + 1] = [type |-> "task", text |-> cfg.prompts[i + 1],
                                     index |-> i]
      ]_vars

\* C10 witness: a run over two prompts with check prompts enabled has just started
C10_Witness ==
    /\ sched.isRunningQueue
    /\ sched.config.checkPromptEnabled
    /\ Len(sched.config.prompts) = 2
    /\ Len(sched.runtimeQueue) = 4
    /\ sched.runtimeQueue[4].type = "check"
    /\ sched.queueIndex = 0
    /\ jobs = <<ItemJob(sched, "Task A")>>

\* C11: the prompt sends of one scheduler run are strictly serialized: of two
\* queuePrompt closures of the same run, the later one has not started (it has
\* neither synced nor called cdpHandler.sendPrompt) as long as the earlier one,
\* its resync and retry included, has not settled; this holds for closures
\* enqueued by advance, skip, quota resume and manual sends alike.
C11_SendsSerialized ==
    \A j \in 1..Len(jobs) : \A k \in 1..Len(jobs) :
        (j < k /\ jobs[j].runId = jobs[k].runId) => jobs[k].pc = "queued"

\* a manual send waits behind the retry of a queue item of the same run
C11_Witness ==
    \E j \in 1..Len(jobs) : \E k \in 1..Len(jobs) :
        /\ j < k
        /\ jobs[j].runId = jobs[k].runId
        /\ jobs[j].src = "item" /\ jobs[j].pc = "resend"
        /\ jobs[k].src = "manual" /\ jobs[k].pc = "queued"
        /\ sched.isRunningQueue /\ sched.queueRunId = jobs[j].runId

\* C12: once stopQueue or resetQueue incremented queueRunId, a continuation of the
\* superseded run changes no scheduler state when it resumes: neither the reply
\* of a send queued in an earlier generation, nor an advanceQueue that was
\* suspended on the update of the persisted list when stopQueue ran (the stop
\* flag is still set, so the stop came after the advance began and no start
\* followed) changes queueIndex, runtimeQueue, isRunningQueue,
\* hasSentCurrentItem or promptHistory.
C12_SupersededRunInert ==
    [][ LET kept == /\ sched'.queueIndex = sched.queueIndex
                    /\ sched'.runtimeQueue = sched.runtimeQueue
                    /\ sched'.isRunningQueue = sched.isRunningQueue
                    /\ sched'.hasSentCurrentItem = sched.hasSentCurrentItem
                    /\ sched'.promptHistory = sched.promptHistory
        IN /\ \A j \in 1..Len(jobs), n \in SentCounts :
                (SendReplies(j, n) /\ jobs[j].runId # sched.queueRunId) => kept
           /\ (AdvanceResume /\ sched.isStopped) => kept
      ]_vars

\* C13: in every reachable state queueIndex is a valid position of the runtime
\* queue or its end: 0 <= queueIndex <= Len(runtimeQueue), whatever the
\* interleaving of startQueue, advanceQueue, skipPrompt, stopQueue, resetQueue
\* and the silence timer.
C13_IndexInRange ==
    0 <= sched.queueIndex /\ sched.queueIndex <= Len(sched.runtimeQueue)

\* C14: hasSentCurrentItem becomes true only on the confirmation of a send of the
\* item at the current queueIndex made in the current run; the confirmation of
\* any other prompt (an earlier item still in flight, a manual prompt, the quota
\* gate's "Continue") never sets it.
C14_OnlyCurrentItemMarks ==
    [][ \A j \in 1..Len(jobs), n \in SentCounts :
          (SendReplies(j, n) /\ ~sched.hasSentCurrentItem /\ sched'.hasSentCurrentItem)
          => /\ jobs[j].src = "item"
             /\ jobs[j].runId = sched.queueRunId
             /\ sched.queueIndex < Len(sched.runtimeQueue)
             /\ jobs[j].text = sched.runtimeQueue[sched.queueIndex + 1].text
      ]_vars

\* C15: every dispatch of a queue item eventually ends: the send is confirmed
\* (hasSentCurrentItem true), or the queue is force-stopped with an error shown,
\* or the run is ended; the queue never remains Running forever with an
\* undelivered current item and no send pending.
C15_DispatchSettles ==
    (\E j \in 1..Len(jobs) :
        jobs[j].src = "item" /\ jobs[j].runId = sched.queueRunId /\ sched.isRunningQueue)
    ~> (sched.hasSentCurrentItem \/ errorShown \/ ~sched.isRunningQueue)

\* C20 as stated: setQuotaExhausted enqueues nothing unless the flag falls; on a
\* falling edge it enqueues at most one prompt: the current queue item when a
\* queue is Running, otherwise "Continue" when auto-continue is enabled.
C20_RunningResendsItem ==
    [][ \A e, qr, ac \in BOOLEAN :
          SetQuotaExhausted(e, qr, ac)
          => IF sched.isQuotaExhausted /\ ~e
             THEN IF sched.isRunningQueue
                  THEN \/ jobs' = jobs
                       \/ /\ sched.queueIndex < Len(sched.runtimeQueue)
                          /\ jobs' = Append(jobs, ItemJob(sched,
                                         sched.runtimeQueue[sched.queueIndex + 1].text))
                  ELSE IF ac
                  THEN jobs' = QueuePrompt(sched, jobs, "Continue", "continue")
                  ELSE jobs' = jobs
             ELSE jobs' = jobs
      ]_vars

\* C20: setQuotaExhausted enqueues nothing unless the flag falls; on a falling
\* edge it enqueues at most one prompt: the current queue item when a queue is
\* Running in queue mode and queue resume is enabled (nothing when the queue has
\* no current item), otherwise "Continue" when auto-continue is enabled, and
\* nothing when it is not.
C20_EdgeEnqueuesOne ==
    [][ \A e, qr, ac \in BOOLEAN :
          SetQuotaExhausted(e, qr, ac)
          => IF sched.isQuotaExhausted /\ ~e
             THEN IF sched.isRunningQueue /\ sched.config.mode = "queue" /\ qr
                  THEN IF sched.queueIndex < Len(sched.runtimeQueue)
                       THEN jobs' = Append(jobs, ItemJob(sched,
                                       sched.runtimeQueue[sched.queueIndex + 1].text))
                       ELSE jobs' = jobs
                  ELSE IF ac
                  THEN jobs' = QueuePrompt(sched, jobs, "Continue", "continue")
                  ELSE jobs' = jobs
             ELSE jobs' = jobs
      ]_vars

\* the quota came back for a running queue with queue resume disabled and
\* auto-continue enabled: "Continue" alone is enqueued
C20_Witness ==
    /\ sched.isRunningQueue
    /\ ~sched.isQuotaExhausted
    /\ sched.queueIndex < Len(sched.runtimeQueue)
    /\ sched.hasSentCurrentItem
    /\ commands = 3
    /\ jobs = <<[text |-> "Continue", runId |-> sched.queueRunId,
                 chain |-> sched.promptQueue, pc |-> "queued", attempts |-> 0,
                 src |-> "continue"]>>

C18_AtMostOneActive ==
    \A i \in Instances : \A k \in Instances :
        (/\ lease.inst[i].polling /\ ~lease.inst[i].isLockedOut /\ lease.inst[i].cdpStarted
         /\ lease.inst[k].polling /\ ~lease.inst[k].isLockedOut /\ lease.inst[k].cdpStarted)
        => i = k

C21_RunningStartRejected ==
    [][ (StartQueueResume /\ sched.isRunningQueue)
        => /\ sched'.runtimeQueue = sched.runtimeQueue
           /\ sched'.queueIndex = sched.queueIndex
           /\ jobs' = jobs
      ]_vars

\* C22: a startQueue over an empty prompts list is rejected: when the call has
\* run, isRunningQueue is false, hasSentCurrentItem is false, and the call has
\* chained no prompt for the CDP handler and logged none as sent.
C22_EmptyStartRejected ==
    [][ (StartQueueResume /\ Len(sched.config.prompts) = 0)
        => /\ ~sched'.isRunningQueue
           /\ ~sched'.hasSentCurrentItem
           /\ jobs' = jobs
           /\ sched'.promptHistory = sched.promptHistory
      ]_vars

\* a manual startQueue over the empty list has run to its end: the timers were
\* reset, nothing is running and nothing was chained
C22_Witness ==
    /\ store.mode = "queue"
    /\ store.prompts = <<>>
    /\ commands = 1
    /\ pendingStarts = 0
    /\ sched.lastStartQueueTime # 0
    /\ sched.taskStartTime # 0
    /\ sched.runtimeQueue = <<>>
    /\ ~sched.isRunningQueue
    /\ ~sched.hasSentCurrentItem
    /\ jobs = <<>>

\* C23: stopQueue on an idle scheduler (not running, empty runtime queue)
\* returns false and changes no field (queueRunId, isStopped, promptQueue and
\* the counters included); stopQueue applied twice leaves the state that
\* applying it once leaves.
C23_StopIdempotent ==
    /\ (~sched.isRunningQueue /\ Len(sched.runtimeQueue) = 0)
       => (StopQueue(sched) = sched /\ ~StopQueueResult(sched))
    /\ StopQueue(StopQueue(sched)) = StopQueue(sched)
    /\ ~StopQueueResult(StopQueue(sched))

\* the queue was running and was stopped once: a second stopQueue finds the
\* scheduler idle
C23_Witness ==
    /\ ~sched.isRunningQueue
    /\ sched.runtimeQueue = <<>>
    /\ sched.isStopped
    /\ sched.queueRunId = 1
    /\ sched.promptQueue = 1
    /\ commands = 2

\* C24: pauseQueue and resumeQueue change the paused flag and no other field,
\* and queueIndex does not move while the queue stays paused: after pauseQueue
\* followed by resumeQueue the queue is at the queueIndex it had before the
\* pause, however long the pause lasted.
C24_PauseKeepsIndex ==
    [][ /\ (PauseQueue \/ ResumeQueue)
           => sched' = [sched EXCEPT !.isPaused = ~sched.isPaused]
        /\ (sched.isPaused /\ sched'.isPaused)
           => sched'.queueIndex = sched.queueIndex
      ]_vars

\* C25: every _evaluate request carries an id that no other outstanding request
\* has, a resolved request was resolved by the reply to itself, which carries
\* its id, a rejected request was rejected by its own timeout, and a request
\* that is settled is never settled again.
C25_SettledOnceByOwnId ==
    /\ [](\A q, r \in 1..Len(cdp.requests) :
            (q # r /\ cdp.requests[q].state = "pending" /\ cdp.requests[r].state = "pending")
            => cdp.requests[q].id # cdp.requests[r].id)
    /\ [](\A r \in 1..Len(cdp.requests) :
            /\ cdp.requests[r].state = "resolved"
               => /\ cdp.requests[r].by = r
                  /\ cdp.requests[r].answer # "none"
            /\ cdp.requests[r].state = "rejected" => cdp.requests[r].by = -1)
    /\ [][\A r \in 1..Len(cdp.requests) :
            cdp.requests[r].state # "pending"
            => /\ cdp'.requests[r].state = cdp.requests[r].state
               /\ cdp'.requests[r].by = cdp.requests[r].by]_vars

\* one request resolved by its reply, another rejected by its timeout whose
\* reply came late and found the listener still on the socket
C25_Witness ==
    \E q, r \in 1..Len(cdp.requests) :
        /\ cdp.requests[q].state = "resolved" /\ cdp.requests[q].by = q
        /\ cdp.requests[r].state = "rejected" /\ cdp.requests[r].answer # "none"
        /\ ~cdp.requests[r].listening
        /\ cdp.requests[q].ws = cdp.requests[r].ws

\* C26: after any refresh calls, overlapping ones included, every target id has
\* at most one open link and the payload has run at most once in the page of
\* each link.
C26_OneLinkOneInjection ==
    /\ \A t \in Targets :
          Cardinality({sock \in 1..Len(cdp.sockets) :
                          cdp.sockets[sock].target = t /\ cdp.sockets[sock].state = "open"}) <= 1
    /\ \A sock \in 1..Len(cdp.sockets) : cdp.sockets[sock].payloads <= 1

\* C27: a target is marked injected only when its payload evaluation succeeded,
\* so a target whose injection failed stays marked not injected and the next
\* refresh injects it again.
C27_InjectedOnlyOnSuccess ==
    \A sock \in 1..Len(cdp.sockets) :
        cdp.sockets[sock].injected
        => \E r \in 1..Len(cdp.requests) :
              /\ cdp.requests[r].kind = "payload"
              /\ cdp.requests[r].ws = sock
              /\ cdp.requests[r].answer = "ok"

\* the send request of a returned sendPrompt was answered with ok: true before
\* its timeout
Confirmed(call) ==
    /\ call.sentTo # {}
    /\ cdp.requests[call.req].kind = "send"
    /\ cdp.requests[call.req].state = "resolved"
    /\ cdp.requests[call.req].answer = "ok"

Delivers == cdp.calls[1].pc # "send" /\ cdp'.calls[1].pc = "send"

\* the probe result of the chosen target, and the usable results
ChosenResult ==
    LET call == cdp'.calls[1]
    IN call.results[CHOOSE k \in 1..Len(call.results) : call.results[k].id = call.target]
Usable ==
    {r \in {cdp'.calls[1].results[k] : k \in 1..Len(cdp'.calls[1].results)} : r.hasInput}

\* the title of the entry of a probed target matches the workspace name
MatchesWorkspace(r) ==
    /\ cdp.workspaceName # NoWorkspace
    /\ cdp.link[r.id] # 0
    /\ TitleMatches(cdp.sockets[cdp.link[r.id]].pageTitle, cdp.workspaceName)

C29_HistoryKeepsLastFifty ==
    /\ [](Len(sched.promptHistory) <= 50)
    /\ [][\A t \in 1..Len(PromptTexts) :
            HistoryAppend(PromptTexts[t])
            => LET old == sched.promptHistory
                   new == sched'.promptHistory
                   dropped == Len(old) + 1 - Len(new)
               IN /\ Len(new) = IF Len(old) + 1 < 50 THEN Len(old) + 1 ELSE 50
                  /\ new[Len(new)] = PromptTexts[t]
                  /\ \A k \in 1..(Len(new) - 1) : new[k] = old[k + dropped]]_vars

\* a full history after an append that found it full
C29_Witness == Len(sched.promptHistory) = 50 /\ commands >= 2 /\ jobs = <<>> /\ sched.queueRunId = 0

\* a startQueue call passes its guards and goes on to the CDP sync
Accepted == pendingStarts' = pendingStarts + 1

\* an accepted startQueue, its sync settled, builds the queue and dispatches item 0
BuildsAndDispatches ==
    /\ sched'.isRunningQueue
    /\ sched'.queueIndex = 0
    /\ sched'.runtimeQueue = BuildRuntimeQueue(sched.config)
    /\ Len(jobs') = Len(jobs) + 1
    /\ jobs'[Len(jobs')].text = sched'.runtimeQueue[1].text
    /\ jobs'[Len(jobs')].src = "item"

\* C31: a startQueue with source 'manual' on an idle scheduler in queue mode
\* with a non-empty prompts list is accepted, inside the activation grace window
\* too, and an accepted start builds the queue and dispatches item 0.
C31_ManualStartAccepted ==
    /\ []((~sched.isRunningQueue /\ store.mode = "queue" /\ Len(store.prompts) > 0)
          => StartQueuePasses(sched, store, "manual"))
    /\ [][/\ \A source \in Sources :
               StartQueueBegin(source) => (Accepted <=> StartQueuePasses(sched, store, source))
          /\ (StartQueueResume /\ Len(BuildRuntimeQueue(sched.config)) > 0)
             => BuildsAndDispatches]_vars

\* C31 as the code has it: the start is accepted unless a startQueue call, of
\* any source and whether accepted or not, was made less than 2 s before.
C31_ManualStartAcceptedAfterCooldown ==
    /\ []((~sched.isRunningQueue /\ store.mode = "queue" /\ Len(store.prompts) > 0
              /\ ~Dampened(sched))
          => StartQueuePasses(sched, store, "manual"))
    /\ [][/\ \A source \in Sources :
               StartQueueBegin(source) => (Accepted <=> StartQueuePasses(sched, store, source))
          /\ (StartQueueResume /\ Len(BuildRuntimeQueue(sched.config)) > 0)
             => BuildsAndDispatches]_vars

\* the first command was a manual start inside the grace window; item 0 is out
C31_Witness ==
    /\ commands = 1 /\ pendingStarts = 0
    /\ sched.activationTime # 0 /\ now - sched.activationTime < ActivationGraceMs
    /\ sched.isRunningQueue /\ sched.queueIndex = 0
    /\ Len(jobs) = 1 /\ jobs[1].src = "item" /\ jobs[1].pc = "queued"

\* C32: a queue that is Running, not paused, with quota available and the send
\* of its current item confirmed eventually advances to the next item or
\* completes, also when the extension was switched off and on again before the
\* queue was started (as long as the run stays within the history the model
\* follows).
C32_SilenceAdvances ==
    (sched.isRunningQueue /\ ~sched.isPaused /\ ~sched.isQuotaExhausted
        /\ sched.hasSentCurrentItem /\ ~TimerRests)
    ~> (~sched.hasSentCurrentItem \/ ~sched.isRunningQueue \/ TimerRests)

\* a verified click was counted less than silenceTimeout ago
ClickedLately ==
    cdp.clickTime # 0 /\ now - cdp.clickTime < sched.config.silenceTimeout

\* C33: a silence check made less than silenceTimeout after a verified click
\* does not advance the queue, also when the statistics collection has set the
\* page's click counter back to 0 in between.
C33_ClicksHoldTheQueue ==
    [][ (\/ CheckSilenceConsume(GetStats(cdp))
         \/ CheckSilenceAdvance(GetStats(cdp))) => ~ClickedLately ]_vars

\* C34: one elapsed silence period advances the queue by one item, also when
\* several checkSilence calls are in flight: every increment of queueIndex by
\* advanceQueue in a running queue leaves an item whose send was confirmed, so
\* no second increment follows the first before the next item was delivered.
C34_OneAdvancePerSilence ==
    [][ ((AdvanceResume \/ \E c \in 0..MaxClicks : CheckSilenceAdvance(c))
            /\ sched.isRunningQueue)
        => sched.hasSentCurrentItem ]_vars

\* C35: stopQueue cancels only the prompts pending when it ran: a closure
\* enqueued after the last stopQueue (its runId is the current queueRunId) with
\* a text to send is not cancelled when it starts, it goes on to the send,
\* without a new startQueue.
C35_StopCancelsOnlyPending ==
    [][ \A j \in 1..Len(jobs) :
          (QueuePromptStart(j) /\ jobs[j].runId = sched.queueRunId /\ jobs[j].text # "")
          => (Len(jobs') = Len(jobs) /\ jobs'[j].pc = "sync") ]_vars

\* a send of a queue item is enqueued by the step
DispatchesItem ==
    Len(jobs') > Len(jobs) /\ jobs'[Len(jobs')].src = "item"

\* C36: while the queue is paused no queue item is dispatched: a step that
\* starts and ends with isPaused true (so it is not resumeQueue, skipPrompt or
\* stopQueue) enqueues no send of a queue item, also when the quota flag falls
\* from exhausted to available during the pause.
C36_PausedDispatchesNothing ==
    [][ (sched.isPaused /\ sched'.isPaused) => ~DispatchesItem ]_vars

\* C37: whenever isRunningQueue is true the queue has a current item:
\* runtimeQueue is not empty and queueIndex is below its length, also right
\* after a loop-around that rebuilt the queue from the stored configuration.
C37_RunningHasCurrentItem ==
    sched.isRunningQueue
    => (Len(sched.runtimeQueue) > 0 /\ sched.queueIndex < Len(sched.runtimeQueue))

\* C38: a connection record leaves the pool only when its own transport closes
\* or the pool is stopped: the 'close' event of a socket never removes the
\* entry another socket holds, such as the one a later start() registered
\* under the same target id.
C38_CloseRemovesOwnEntry ==
    [][ \A sock \in 1..MaxSockets :
          SocketClose(sock)
          => \A t \in Targets :
               (cdp.link[t] # 0 /\ cdp.link[t] # sock) => cdp'.link[t] = cdp.link[t] ]_vars

\* C39: one call of getUserStatus makes at most maxReconnectAttempts
\* reconnect-and-retry rounds, whatever the language server does, and then
\* rejects with the error.
C39_RetriesBounded == client.rounds <= MaxReconnectAttempts
====
